---- MODULE Spec2Model ----
(***************************************************************************)
(* A model of the golang-ical codec: the line unfolder                     *)
(* (CalendarStream.ReadLine), the property grammar parser (ParseProperty), *)
(* the component tree parser (ParseCalendar, ParseComponent) and the       *)
(* folding serializer (BaseProperty.serialize, Calendar.SerializeTo).      *)
(*                                                                         *)
(* Strings are sequences of octets (integers 0..255), as Go strings are.   *)
(***************************************************************************)
EXTENDS Integers, Sequences, FiniteSets, TLC

VARIABLES
    \* TEXT escaping: the string, its escaped form, the decoded form, the step.
    txt, esc, unesc, tpc,
    \* BaseProperty.serialize: the property, the configuration, the rest of
    \* the line still to write, the bytes written to the io.Writer, the number
    \* of writes made, the position in the function, and the logical line
    \* that CalendarStream.ReadLine reads back from the bytes written.
    bp, serialConfig, r, w, nwrites, spc, unfolded,
    \* ParseProperty: the content line, what ParseProperty returned, the step.
    inputLine, parsed, ppc,
    \* ParseCalendar: the content lines the stream is made of, the bytes of
    \* the stream, the position of the CalendarStream in it, the locals state,
    \* c and cont, what ParseCalendar returned, the pass (1: the text is
    \* parsed, 2: the serialization of the first result is parsed), the
    \* result of the first pass, the position in the function.
    inputLines, stream, cs, state, calendar, loopCont, result, pass, first, cpc,
    \* CalendarStream.ReadLine called until io.EOF: the bytes of the stream,
    \* the position in it, the results returned so far, the step.
    rstream, rcs, got, rpc,
    \* BaseProperty.serialize: the order in which range yields the keys of
    \* ICalParameters.
    iter,
    \* Calendar.SerializeTo on a writer that can fail: the calendar, the
    \* configuration, the writer, the error returned, the step.
    scal, sinkConfig, sink, serr, kpc,
    \* The property list operations: the Properties of the component (or the
    \* CalendarProperties of the calendar) the call is made on, what they were
    \* before the call, the call and its arguments, the slice returned, the step.
    plist, before, call, removed, opc,
    \* The parameter values a content line is written from, in the order of
    \* the line.
    items

textVars == <<txt, esc, unesc, tpc>>
foldVars == <<bp, serialConfig, r, w, nwrites, spc, unfolded>>
propVars == <<inputLine, parsed, ppc>>
parseVars == <<inputLines, stream, cs, state, calendar, loopCont, result, pass,
              first, cpc>>
readVars == <<rstream, rcs, got, rpc>>
mapVars == <<iter>>
sinkVars == <<scal, sinkConfig, sink, serr, kpc>>
compVars == <<plist, before, call, removed, opc>>
groupVars == <<items>>
vars == <<txt, esc, unesc, tpc, bp, serialConfig, r, w, nwrites, spc, unfolded,
          inputLine, parsed, ppc, inputLines, stream, cs, state, calendar,
          loopCont, result, pass, first, cpc, rstream, rcs, got, rpc,
          iter,
          scal, sinkConfig, sink, serr, kpc,
          plist, before, call, removed, opc,
          items>>

(***************************************************************************)
(* Octets that the code names as character literals.                       *)
(***************************************************************************)
TAB == 9
LF == 10
CR == 13
SP == 32
DQUOTE == 34
SQUOTE == 39
COMMA == 44
COLON == 58
SEMI == 59
LT == 60
EQ == 61
GT == 62
BSLASH == 92
LowerN == 110
UpperN == 78

(***************************************************************************)
(* Bounds of the model.                                                    *)
(***************************************************************************)
MaxTextLen == 4
MaxValueAtoms == 3
MaxMaxLength == 5
MaxWrites == 6
MaxSuffixLen == 4

\* All sequences over S of length at most n.
SeqsUpTo(S, n) == UNION {[1..k -> S] : k \in 0..n}

RECURSIVE Concat(_)
\* Concatenation of a sequence of byte strings.
Concat(ss) == IF ss = <<>> THEN <<>> ELSE Head(ss) \o Concat(Tail(ss))

(***************************************************************************)
(* TEXT escaping: textEscaper / ToText, textUnescaper / FromText.          *)
(* strings.NewReplacer scans left to right and replaces the first pattern  *)
(* that matches at the current position; unmatched bytes are copied.       *)
(***************************************************************************)
\* A mutant of textEscaperByte: the backslash itself is not escaped.
textEscaperByteNoBackslash(b) ==
    CASE b = LF -> <<BSLASH, LowerN>>
      [] b = SEMI -> <<BSLASH, SEMI>>
      [] b = COMMA -> <<BSLASH, COMMA>>
      [] OTHER -> <<b>>

textEscaperByte(b) ==
    CASE b = BSLASH -> <<BSLASH, BSLASH>>
      [] b = LF -> <<BSLASH, LowerN>>
      [] b = SEMI -> <<BSLASH, SEMI>>
      [] b = COMMA -> <<BSLASH, COMMA>>
      [] OTHER -> <<b>>

ToText(s) == Concat([i \in 1..Len(s) |-> textEscaperByte(s[i])])

\* The replacement of the two-byte pattern <<BSLASH, b>>, or <<>> if it is no pattern.
textUnescaperPair(b) ==
    CASE b = BSLASH -> <<BSLASH>>
      [] b = LowerN -> <<LF>>
      [] b = UpperN -> <<LF>>
      [] b = SEMI -> <<SEMI>>
      [] b = COMMA -> <<COMMA>>
      [] OTHER -> <<>>

RECURSIVE FromTextAt(_, _)
FromTextAt(s, i) ==
    IF i > Len(s) THEN <<>>
    ELSE IF s[i] = BSLASH /\ i < Len(s) /\ textUnescaperPair(s[i + 1]) # <<>>
         THEN textUnescaperPair(s[i + 1]) \o FromTextAt(s, i + 2)
         ELSE <<s[i]>> \o FromTextAt(s, i + 1)

FromText(s) == FromTextAt(s, 1)

(***************************************************************************)
(* UTF-8 decoding as Go's "for i, r := range s" performs it: a valid       *)
(* encoding yields its code point and width; any other byte yields         *)
(* utf8.RuneError with width 1.                                            *)
(***************************************************************************)
IsCont(b) == b >= 128 /\ b <= 191

\* The byte of s at 0-based index i, or -1 past the end.
ByteAt(s, i) == IF i >= 0 /\ i < Len(s) THEN s[i + 1] ELSE -1

\* unicode/utf8 DecodeRuneInString(s[i:]): [r |-> code point, size |-> width].
DecodeRune(s, i) ==
    LET b0 == ByteAt(s, i)
        b1 == ByteAt(s, i + 1)
        b2 == ByteAt(s, i + 2)
        b3 == ByteAt(s, i + 3)
        bad == [r |-> 65533, size |-> 1]  \* utf8.RuneError
    IN  IF b0 < 128 THEN [r |-> b0, size |-> 1]
        ELSE IF b0 >= 194 /\ b0 <= 223
             THEN IF IsCont(b1)
                  THEN [r |-> (b0 - 192) * 64 + (b1 - 128), size |-> 2]
                  ELSE bad
        ELSE IF b0 >= 224 /\ b0 <= 239
             THEN IF /\ IsCont(b1) /\ IsCont(b2)
                     /\ (b0 = 224 => b1 >= 160)
                     /\ (b0 = 237 => b1 <= 159)
                  THEN [r |-> (b0 - 224) * 4096 + (b1 - 128) * 64 + (b2 - 128),
                        size |-> 3]
                  ELSE bad
        ELSE IF b0 >= 240 /\ b0 <= 244
             THEN IF /\ IsCont(b1) /\ IsCont(b2) /\ IsCont(b3)
                     /\ (b0 = 240 => b1 >= 144)
                     /\ (b0 = 244 => b1 <= 143)
                  THEN [r |-> (b0 - 240) * 262144 + (b1 - 128) * 4096
                                + (b2 - 128) * 64 + (b3 - 128),
                        size |-> 4]
                  ELSE bad
        ELSE bad

\* utf8.RuneLen: the number of bytes needed to encode the rune.
RuneLen(rn) ==
    IF rn < 0 THEN -1
    ELSE IF rn <= 127 THEN 1
    ELSE IF rn <= 2047 THEN 2
    ELSE IF rn >= 55296 /\ rn <= 57343 THEN -1
    ELSE IF rn <= 65535 THEN 3
    ELSE IF rn <= 1114111 THEN 4
    ELSE -1

\* s[from:to] with 0-based, end-exclusive indices, as a Go slice expression.
Slice(s, from, to) == SubSeq(s, from + 1, to)

RECURSIVE trimScan(_, _, _, _, _, _)
\* The loop of trimUT8StringUpTo from byte index i on: the accepted length
\* and the last word boundary when the loop ends.
trimScan(maxLength, s, i, length, lastWordBoundary, lastRune) ==
    IF i >= Len(s) THEN [length |-> length, lastWordBoundary |-> lastWordBoundary]
    ELSE LET d == DecodeRune(s, i)
             lwb == IF d.r = SP \/ d.r = LT THEN i
                    ELSE IF lastRune = GT THEN i
                    ELSE lastWordBoundary
             newLength == length + RuneLen(d.r)
         IN  IF newLength > maxLength
             THEN [length |-> length, lastWordBoundary |-> lwb]
             ELSE trimScan(maxLength, s, i + d.size, newLength, lwb, d.r)

\* A mutant of trimUT8StringUpTo: the cut is made at maxLength bytes,
\* whether or not that is a rune boundary.
trimBytesUpTo(maxLength, s) ==
    Slice(s, 0, IF maxLength < Len(s) THEN (IF maxLength < 0 THEN 0 ELSE maxLength) ELSE Len(s))

\* A mutant of trimUT8StringUpTo: the rune that crosses maxLength is kept.
trimUT8StringOneOver(maxLength, s) ==
    LET t == trimScan(maxLength, s, 0, 0, -1, 0)
        d == DecodeRune(s, t.length)
        n == IF t.length < Len(s) THEN t.length + d.size ELSE t.length
    IN  Slice(s, 0, n)

trimUT8StringUpTo(maxLength, s) ==
    LET t == trimScan(maxLength, s, 0, 0, -1, 0)
    IN  IF t.lastWordBoundary > 0
        THEN Slice(s, 0, t.lastWordBoundary)
        ELSE Slice(s, 0, t.length)

(***************************************************************************)
(* Names the code compares tokens against.                                 *)
(***************************************************************************)
ParameterValue == <<86, 65, 76, 85, 69>>          \* "VALUE"
ParameterAltrep == <<65, 76, 84, 82, 69, 80>>      \* "ALTREP"
ValueDataTypeText == <<84, 69, 88, 84>>         \* "TEXT"
ValueDataTypeUri == <<85, 82, 73>>              \* "URI"
ValueDataTypeRecur == <<82, 69, 67, 85, 82>>    \* "RECUR"
ValueDataTypeDateTime == <<68, 65, 84, 69, 45, 84, 73, 77, 69>>  \* "DATE-TIME"
PropertyUrl == <<85, 82, 76>>                   \* "URL"
PropertyRrule == <<82, 82, 85, 76, 69>>         \* "RRULE"
PropertyDtstart == <<68, 84, 83, 84, 65, 82, 84>>  \* "DTSTART"

\* Byte-wise lexicographic order of Go strings (sort.Strings).
RECURSIVE StrLess(_, _)
StrLess(a, b) ==
    IF b = <<>> THEN FALSE
    ELSE IF a = <<>> THEN TRUE
    ELSE IF Head(a) # Head(b) THEN Head(a) < Head(b)
    ELSE StrLess(Tail(a), Tail(b))

RECURSIVE SortStrings(_)
\* The keys of a set of strings in ascending order.
SortStrings(S) ==
    IF S = {} THEN <<>>
    ELSE LET m == CHOOSE x \in S : \A y \in S \ {x} : StrLess(x, y)
         IN  <<m>> \o SortStrings(S \ {m})

(***************************************************************************)
(* BaseProperty: [IANAToken, ICalParameters, Value].  ICalParameters is a  *)
(* Go map[string][]string: a function from keys to sequences of values.    *)
(***************************************************************************)
NoParams == <<>>

\* Parameter.IsQuoted: ALTREP is the only parameter written in quotes.
IsQuoted(k) == k = ParameterAltrep

\* A mutant of GetValueType: the VALUE parameter is not looked at.
GetValueTypeOfNameOnly(p) ==
    CASE p.IANAToken = PropertyUrl -> ValueDataTypeUri
      [] p.IANAToken = PropertyRrule -> ValueDataTypeRecur
      [] p.IANAToken = PropertyDtstart -> ValueDataTypeDateTime
      [] OTHER -> ValueDataTypeText

\* BaseProperty.GetValueType: an explicit single VALUE parameter, else the
\* default of the property name (every name not listed defaults to TEXT).
GetValueType(p) ==
    IF ParameterValue \in DOMAIN p.ICalParameters
       /\ Len(p.ICalParameters[ParameterValue]) = 1
    THEN p.ICalParameters[ParameterValue][1]
    ELSE CASE p.IANAToken = PropertyUrl -> ValueDataTypeUri
           [] p.IANAToken = PropertyRrule -> ValueDataTypeRecur
           [] p.IANAToken = PropertyDtstart -> ValueDataTypeDateTime
           [] OTHER -> ValueDataTypeText

\* A mutant of escapeValueString: the single quote is written as it is.
escapeValueStringNoApostrophe(v) ==
    Concat([i \in 1..Len(v) |->
        IF v[i] \in {COMMA, DQUOTE, SEMI, COLON, BSLASH}
        THEN <<BSLASH, v[i]>> ELSE <<v[i]>>])

\* escapeValueString: a backslash before each of , " ; : \ and '.
escapeValueString(v) ==
    Concat([i \in 1..Len(v) |->
        IF v[i] \in {COMMA, DQUOTE, SEMI, COLON, BSLASH, SQUOTE}
        THEN <<BSLASH, v[i]>> ELSE <<v[i]>>])

\* quotedValueString: the value between double quotes, a backslash before
\* each double quote and backslash.
quotedValueString(v) ==
    <<DQUOTE>> \o
    Concat([i \in 1..Len(v) |->
        IF v[i] \in {DQUOTE, BSLASH} THEN <<BSLASH, v[i]>> ELSE <<v[i]>>])
    \o <<DQUOTE>>

RECURSIVE JoinValues(_, _, _)
\* The values of parameter k from index vi on, comma separated.
JoinValues(k, vs, vi) ==
    IF vi > Len(vs) THEN <<>>
    ELSE (IF vi > 1 THEN <<COMMA>> ELSE <<>>)
         \o (IF IsQuoted(k) THEN quotedValueString(vs[vi])
             ELSE escapeValueString(vs[vi]))
         \o JoinValues(k, vs, vi + 1)

RECURSIVE JoinParams(_, _, _)
JoinParams(p, keys, ki) ==
    IF ki > Len(keys) THEN <<>>
    ELSE <<SEMI>> \o keys[ki] \o <<EQ>>
         \o JoinValues(keys[ki], p.ICalParameters[keys[ki]], 1)
         \o JoinParams(p, keys, ki + 1)

\* The first part of BaseProperty.serialize: the unfolded line
\* NAME;KEY=v1,v2;...:value, the parameters in ascending key order.
PropertyLine(p) ==
    p.IANAToken
    \o JoinParams(p, SortStrings(DOMAIN p.ICalParameters), 1)
    \o <<COLON>>
    \o (IF GetValueType(p) = ValueDataTypeText THEN ToText(p.Value) ELSE p.Value)

(***************************************************************************)
(* The folding part of BaseProperty.serialize as a function of the line,   *)
(* for callers that serialize a whole calendar into a buffer.              *)
(***************************************************************************)
RECURSIVE foldRest(_, _)
\* The continuation lines: while more than MaxLength-1 bytes remain, a space,
\* a segment and a newline; then a space, the remainder and a newline.
foldRest(rest, cfg) ==
    IF Len(rest) > cfg.MaxLength - 1
    THEN LET l == trimUT8StringUpTo(cfg.MaxLength - 1, rest)
         IN  <<SP>> \o l \o cfg.NewLine
             \o foldRest(Slice(rest, Len(l), Len(rest)), cfg)
    ELSE <<SP>> \o rest \o cfg.NewLine

\* BaseProperty.serialize into a buffer that never fails.
serializeProperty(p, cfg) ==
    LET line == PropertyLine(p)
    IN  IF Len(line) > cfg.MaxLength
        THEN LET l == trimUT8StringUpTo(cfg.MaxLength, line)
             IN  l \o cfg.NewLine \o foldRest(Slice(line, Len(l), Len(line)), cfg)
        ELSE line \o cfg.NewLine

(***************************************************************************)
(* CalendarStream: a bufio.Reader over the bytes data, of which pos have   *)
(* been consumed.                                                          *)
(***************************************************************************)
RECURSIVE IndexFrom(_, _, _)
\* The least 1-based index j > pos with data[j] = b, or 0 if there is none.
IndexFrom(data, pos, b) ==
    IF pos >= Len(data) THEN 0
    ELSE IF data[pos + 1] = b THEN pos + 1
    ELSE IndexFrom(data, pos + 1, b)

\* bufio.Reader.ReadBytes('\n'): the bytes up to and including the next LF;
\* at the end of the data, what is left and io.EOF.
ReadBytes(data, pos) ==
    LET j == IndexFrom(data, pos, LF)
    IN  IF j = 0
        THEN [b |-> SubSeq(data, pos + 1, Len(data)), err |-> "EOF", pos |-> Len(data)]
        ELSE [b |-> SubSeq(data, pos + 1, j), err |-> "nil", pos |-> j]

\* bufio.Reader.Peek(1): the next byte without consuming it; none at the end.
Peek1(data, pos) == IF pos < Len(data) THEN <<data[pos + 1]>> ELSE <<>>

\* A mutant of ReadLineResult: a line is handed back also when it is empty
\* and the stream has ended.
ReadLineResultAlways(line, err, pos) ==
    [nil |-> FALSE, line |-> line, err |-> err, pos |-> pos]

\* What ReadLine returns once its loop has ended.
ReadLineResult(line, err, pos) ==
    IF Len(line) = 0 /\ err # "nil"
    THEN [nil |-> TRUE, line |-> <<>>, err |-> err, pos |-> pos]
    ELSE [nil |-> FALSE, line |-> line, err |-> err, pos |-> pos]

\* A mutant of FoldWhitespace: a horizontal tab does not continue a line.
FoldWhitespaceNoTab == {SP}

\* The bytes that, right after a line terminator, continue the logical line.
FoldWhitespace == {SP, TAB}

RECURSIVE ReadLineLoop(_, _, _)
\* One iteration of the loop of CalendarStream.ReadLine, and the rest of it.
ReadLineLoop(data, pos, line) ==
    LET rb == ReadBytes(data, pos)
        b == rb.b
    IN  IF Len(b) = 0
        THEN IF rb.err = "nil"
             THEN ReadLineLoop(data, rb.pos, line)
             ELSE ReadLineResult(line, rb.err, rb.pos)
        ELSE IF b[Len(b)] = LF
        THEN LET o == IF Len(b) > 1 /\ b[Len(b) - 1] = CR THEN 2 ELSE 1
                 p == Peek1(data, rb.pos)
                 line2 == line \o SubSeq(b, 1, Len(b) - o)
                 fold == Len(p) # 0 /\ p[1] \in FoldWhitespace
                 pos2 == IF fold THEN rb.pos + 1 ELSE rb.pos
             IN  IF fold \/ Len(line2) = 0
                 THEN ReadLineLoop(data, pos2, line2)
                 ELSE ReadLineResult(line2, "nil", pos2)
        ELSE ReadLineResult(line \o b, rb.err, rb.pos)

\* CalendarStream.ReadLine on the stream [data, pos].
ReadLine(data, pos) == ReadLineLoop(data, pos, <<>>)

(***************************************************************************)
(* The property grammar parser.  An error is a record of the message kind, *)
(* the parameter name and the property name the message carries.           *)
(***************************************************************************)
NoError == [kind |-> "nil", k |-> <<>>, token |-> <<>>]

Error(kind, k, token) == [kind |-> kind, k |-> k, token |-> token]

\* The characters of propertyIanaTokenReg and propertyParamNameReg: [A-Za-z0-9-].
IsTokenChar(b) ==
    \/ b >= 65 /\ b <= 90
    \/ b >= 97 /\ b <= 122
    \/ b >= 48 /\ b <= 57
    \/ b = 45

RECURSIVE TokenStart(_, _)
\* The 0-based index of the first token character of s at or after i, or -1.
TokenStart(s, i) ==
    IF i >= Len(s) THEN -1
    ELSE IF IsTokenChar(ByteAt(s, i)) THEN i
    ELSE TokenStart(s, i + 1)

RECURSIVE TokenEnd(_, _)
\* The 0-based index just after the run of token characters that holds i.
TokenEnd(s, i) ==
    IF i < Len(s) /\ IsTokenChar(ByteAt(s, i)) THEN TokenEnd(s, i + 1) ELSE i

\* A mutant of FindIndex: the match must begin where the search begins.
FindIndexAnchored(s, from) ==
    IF from < Len(s) /\ IsTokenChar(ByteAt(s, from))
    THEN <<0, TokenEnd(s, from) - from>>
    ELSE <<>>

\* regexp FindIndex of [A-Za-z0-9-]{1,} in s[from:]: the leftmost longest
\* match as <<start, end>> relative to from, or <<>> (nil) without a match.
FindIndex(s, from) ==
    LET st == TokenStart(s, from)
    IN  IF st < 0 THEN <<>> ELSE <<st - from, TokenEnd(s, st) - from>>

\* The control characters parsePropertyParamValue rejects: 0x00-0x08, 0x0A-0x1F.
IsRejectedControl(b) == (b >= 0 /\ b <= 8) \/ (b >= 10 /\ b <= 31)

\* The read s[i] and the slice s[lo:hi] stay within the bounds of s.
IndexInRange(s, i) == 0 <= i /\ i < Len(s)
SliceInRange(s, lo, hi) == 0 <= lo /\ lo <= hi /\ hi <= Len(s)

\* The run-time panic of a read or a slice out of range: the function does
\* not return, and neither do its callers.
Panic == Error("panic: index out of range", <<>>, <<>>)

\* A mutant of LineEnds: the end of the line is not tested for.
LineEndsUnchecked(contentLine, p) == FALSE

\* The test p >= len(contentLine) that parsePropertyParam makes before it
\* reads contentLine[p].
LineEnds(contentLine, p) == p >= Len(contentLine)

RECURSIVE paramValueLoop(_, _, _, _, _)
\* The loop of parsePropertyParamValue at index p: the value started at ip,
\* quoted says whether it opened with a double quote, acc is the result so far.
paramValueLoop(s, p, ip, quoted, acc) ==
    IF p >= Len(s) THEN [v |-> acc, p |-> p, err |-> NoError]
    ELSE LET c == ByteAt(s, p)
         IN  IF IsRejectedControl(c)
             THEN [v |-> <<>>, p |-> 0,
                   err |-> Error("unexpected char in property param value", <<>>, <<>>)]
             ELSE IF c = BSLASH
             THEN IF p + 2 >= Len(s)
                  THEN [v |-> <<>>, p |-> 0,
                        err |-> Error("unexpected end of param value", <<>>, <<>>)]
                  ELSE IF ~SliceInRange(s, p + 1, p + 2)
                  THEN [v |-> <<>>, p |-> 0, err |-> Panic]
                  ELSE paramValueLoop(s, p + 2, ip, quoted,
                                      acc \o FromText(Slice(s, p + 1, p + 2)))
             ELSE IF c \in {SEMI, COLON, COMMA} /\ ~quoted
             THEN [v |-> acc, p |-> p, err |-> NoError]
             ELSE IF c = DQUOTE
             THEN IF p = ip THEN paramValueLoop(s, p + 1, ip, TRUE, acc)
                  ELSE IF quoted THEN [v |-> acc, p |-> p + 1, err |-> NoError]
                  ELSE [v |-> <<>>, p |-> 0,
                        err |-> Error("unexpected double quote in property param value",
                                      <<>>, <<>>)]
             ELSE paramValueLoop(s, p + 1, ip, quoted, acc \o <<c>>)

\* parsePropertyParamValue(s, p): [v, p, err].
parsePropertyParamValue(s, p) == paramValueLoop(s, p, p, FALSE, <<>>)

\* A mutant of AppendParam: the value takes the place of the values the
\* parameter already has.
AppendParamReplacing(params, k, v) ==
    [x \in DOMAIN params \cup {k} |-> IF x = k THEN <<v>> ELSE params[x]]

\* ICalParameters[k] = append(ICalParameters[k], v)
AppendParam(params, k, v) ==
    [x \in DOMAIN params \cup {k} |->
        IF x = k
        THEN (IF k \in DOMAIN params THEN params[k] ELSE <<>>) \o <<v>>
        ELSE params[x]]

RECURSIVE paramValuesLoop(_, _, _, _)
\* The loop of parsePropertyParam that reads the comma separated values of k.
paramValuesLoop(prop, contentLine, k, p) ==
    IF p >= Len(contentLine) THEN [nil |-> TRUE, prop |-> prop, p |-> p, err |-> NoError]
    ELSE LET pv == parsePropertyParamValue(contentLine, p)
         IN  IF pv.err # NoError
             THEN [nil |-> TRUE, prop |-> prop, p |-> 0,
                   err |-> Error(pv.err.kind, k, prop.IANAToken)]
             ELSE LET prop2 == [prop EXCEPT
                                  !.ICalParameters = AppendParam(@, k, pv.v)]
                  IN  IF LineEnds(contentLine, pv.p)
                      THEN [nil |-> TRUE, prop |-> prop2, p |-> pv.p,
                            err |-> Error("unexpected end of property", <<>>,
                                          prop.IANAToken)]
                      ELSE IF ~IndexInRange(contentLine, pv.p)
                      THEN [nil |-> TRUE, prop |-> prop2, p |-> pv.p, err |-> Panic]
                      ELSE IF ByteAt(contentLine, pv.p) = COMMA
                      THEN paramValuesLoop(prop2, contentLine, k, pv.p + 1)
                      ELSE [nil |-> FALSE, prop |-> prop2, p |-> pv.p, err |-> NoError]

\* parsePropertyParam(r, contentLine, p): [nil, prop, p, err], where nil says
\* that the returned property pointer is nil.
parsePropertyParam(prop, contentLine, p) ==
    LET tokenPos == FindIndex(contentLine, p)
    IN  IF ~SliceInRange(contentLine, p, Len(contentLine))
        THEN [nil |-> TRUE, prop |-> prop, p |-> p, err |-> Panic]
        ELSE IF tokenPos = <<>>
        THEN [nil |-> TRUE, prop |-> prop, p |-> p, err |-> NoError]
        ELSE LET k == Slice(contentLine, p, p + tokenPos[2])
                 p2 == p + tokenPos[2]
             IN  IF LineEnds(contentLine, p2)
                 THEN [nil |-> TRUE, prop |-> prop, p |-> p2,
                       err |-> Error("missing property param operator", k,
                                     prop.IANAToken)]
                 ELSE IF ~IndexInRange(contentLine, p2)
                 THEN [nil |-> TRUE, prop |-> prop, p |-> p2, err |-> Panic]
                 ELSE IF ByteAt(contentLine, p2) # EQ
                 THEN [nil |-> TRUE, prop |-> prop, p |-> p2,
                       err |-> Error("missing property value", k, prop.IANAToken)]
                 ELSE paramValuesLoop(prop, contentLine, k, p2 + 1)

\* parsePropertyValue: the rest of the line (the regexp ^.* stops at a line
\* feed) is the value, decoded from TEXT escaping when the type is TEXT.
parsePropertyValue(prop, contentLine, p) ==
    LET nl == IndexFrom(contentLine, p, LF)
        raw == IF nl = 0 THEN Slice(contentLine, p, Len(contentLine))
               ELSE Slice(contentLine, p, nl - 1)
        withRaw == [prop EXCEPT !.Value = raw]
    IN  IF GetValueType(withRaw) = ValueDataTypeText
        THEN [prop EXCEPT !.Value = FromText(raw)]
        ELSE withRaw

NilProperty == [IANAToken |-> <<>>, ICalParameters |-> NoParams, Value |-> <<>>]

RECURSIVE propertyLoop(_, _, _)
\* The loop of ParseProperty at index p.
propertyLoop(prop, contentLine, p) ==
    IF p >= Len(contentLine) THEN [nil |-> TRUE, prop |-> NilProperty, err |-> NoError]
    ELSE LET c == ByteAt(contentLine, p)
         IN  IF c = COLON
             THEN [nil |-> FALSE, prop |-> parsePropertyValue(prop, contentLine, p + 1),
                   err |-> NoError]
             ELSE IF c = SEMI
             THEN LET pp == parsePropertyParam(prop, contentLine, p + 1)
                  IN  IF pp.err # NoError
                      THEN [nil |-> TRUE, prop |-> NilProperty, err |-> pp.err]
                      ELSE IF pp.nil
                      THEN [nil |-> TRUE, prop |-> NilProperty, err |-> NoError]
                      ELSE propertyLoop(pp.prop, contentLine, pp.p)
             ELSE [nil |-> TRUE, prop |-> NilProperty, err |-> NoError]

\* ParseProperty(contentLine): [nil, prop, err]; nil says that no property
\* is returned.
ParseProperty(contentLine) ==
    LET tokenPos == FindIndex(contentLine, 0)
    IN  IF tokenPos = <<>>
        THEN [nil |-> TRUE, prop |-> NilProperty, err |-> NoError]
        ELSE propertyLoop(
                 [IANAToken |-> Slice(contentLine, tokenPos[1], tokenPos[2]),
                  ICalParameters |-> NoParams, Value |-> <<>>],
                 contentLine, tokenPos[2])

(***************************************************************************)
(* The component tree parser.  A component is a record of its variant (the  *)
(* Go type that holds it), the Token of a GeneralComponent, its Properties *)
(* and its child Components.                                               *)
(***************************************************************************)
TokenBegin == <<66, 69, 71, 73, 78>>            \* "BEGIN"
TokenEnd_ == <<69, 78, 68>>                       \* "END"
ComponentVCalendar == <<86, 67, 65, 76, 69, 78, 68, 65, 82>>  \* "VCALENDAR"
ComponentVEvent == <<86, 69, 86, 69, 78, 84>>          \* "VEVENT"
ComponentVTodo == <<86, 84, 79, 68, 79>>                \* "VTODO"
ComponentVJournal == <<86, 74, 79, 85, 82, 78, 65, 76>>    \* "VJOURNAL"
ComponentVFreeBusy == <<86, 70, 82, 69, 69, 66, 85, 83, 89>>  \* "VFREEBUSY"
ComponentVTimezone == <<86, 84, 73, 77, 69, 90, 79, 78, 69>>  \* "VTIMEZONE"
ComponentVAlarm == <<86, 65, 76, 65, 82, 77>>          \* "VALARM"
ComponentStandard == <<83, 84, 65, 78, 68, 65, 82, 68>>    \* "STANDARD"
ComponentDaylight == <<68, 65, 89, 76, 73, 71, 72, 84>>    \* "DAYLIGHT"

\* The Go type GeneralParseComponent builds for a BEGIN value.
VariantOf(value) ==
    CASE value = ComponentVEvent -> "VEvent"
      [] value = ComponentVTodo -> "VTodo"
      [] value = ComponentVJournal -> "VJournal"
      [] value = ComponentVFreeBusy -> "VBusy"
      [] value = ComponentVTimezone -> "VTimezone"
      [] value = ComponentVAlarm -> "VAlarm"
      [] value = ComponentStandard -> "Standard"
      [] value = ComponentDaylight -> "Daylight"
      [] OTHER -> "GeneralComponent"

\* The component type each variant's SerializeTo passes to serializeThis.
ComponentTypeOf(co) ==
    CASE co.variant = "VEvent" -> ComponentVEvent
      [] co.variant = "VTodo" -> ComponentVTodo
      [] co.variant = "VJournal" -> ComponentVJournal
      [] co.variant = "VBusy" -> ComponentVFreeBusy
      [] co.variant = "VTimezone" -> ComponentVTimezone
      [] co.variant = "VAlarm" -> ComponentVAlarm
      [] co.variant = "Standard" -> ComponentStandard
      [] co.variant = "Daylight" -> ComponentDaylight
      [] OTHER -> co.Token

NilComponent ==
    [variant |-> "nil", Token |-> <<>>, Properties |-> <<>>, Components |-> <<>>]

RECURSIVE ParseComponentLoop(_, _, _, _, _)
RECURSIVE ComponentLine(_, _, _, _)
RECURSIVE ComponentProperty(_, _, _, _, _)
RECURSIVE ComponentChild(_, _, _, _, _)
RECURSIVE GeneralParseComponent(_, _, _)

\* What ParseComponent returns: the component base, the error, and the
\* position it leaves the stream at.
ComponentResult(cb, err, pos) == [cb |-> cb, err |-> err, pos |-> pos]

\* The loop of ParseComponent from its condition on: cb is the component
\* so far, cont the loop condition.
ParseComponentLoop(data, pos, startLine, cb, cont) ==
    IF ~cont THEN ComponentResult(cb, Error("ran out of lines", <<>>, <<>>), pos)
    ELSE ComponentLine(data, startLine, cb, ReadLine(data, pos))

\* The body of the loop once ReadLine has returned rl: io.EOF ends the loop
\* after this iteration, an empty line is skipped.
ComponentLine(data, startLine, cb, rl) ==
    IF rl.nil \/ Len(rl.line) = 0
    THEN ParseComponentLoop(data, rl.pos, startLine, cb, rl.err = "nil")
    ELSE ComponentProperty(data, startLine, cb, rl, ParseProperty(rl.line))

\* An END line that every BEGIN value accepts.
EndBalancedAnyValue(line, startLine) == TRUE

\* The test ParseComponent makes of an END line: its value is the value of
\* the BEGIN line that opened the component.
EndBalanced(line, startLine) == line.Value = startLine.Value

\* The body of the loop once ParseProperty has returned line.
ComponentProperty(data, startLine, cb, rl, line) ==
    IF line.err # NoError THEN ComponentResult(cb, line.err, rl.pos)
    ELSE IF line.nil
    THEN ComponentResult(cb, Error("parsing component line", <<>>, <<>>), rl.pos)
    ELSE IF line.prop.IANAToken = TokenEnd_
    THEN IF EndBalanced(line.prop, startLine)
         THEN ComponentResult(cb, NoError, rl.pos)
         ELSE ComponentResult(cb, Error("unbalanced end", <<>>, <<>>), rl.pos)
    ELSE IF line.prop.IANAToken = TokenBegin
    THEN ComponentChild(data, startLine, cb, rl,
                        GeneralParseComponent(data, rl.pos, line.prop))
    ELSE ParseComponentLoop(data, rl.pos, startLine,
                            [cb EXCEPT !.Properties = Append(@, line.prop)],
                            rl.err = "nil")

\* The BEGIN case once GeneralParseComponent has returned sub.
ComponentChild(data, startLine, cb, rl, sub) ==
    IF sub.err # NoError THEN ComponentResult(cb, sub.err, sub.pos)
    ELSE ParseComponentLoop(data, sub.pos, startLine,
                            IF sub.nil THEN cb
                            ELSE [cb EXCEPT !.Components = Append(@, sub.co)],
                            rl.err = "nil")

\* ParseComponent(cs, startLine)
ParseComponent(data, pos, startLine) ==
    ParseComponentLoop(data, pos, startLine,
                       [Properties |-> <<>>, Components |-> <<>>], TRUE)

\* Parse<Variant>WithError and ParseGeneralComponentWithError once
\* ParseComponent has returned res: no component when it failed.
ParsedComponent(startLine, res) ==
    IF res.err # NoError
    THEN [co |-> NilComponent, nil |-> TRUE, err |-> res.err, pos |-> res.pos]
    ELSE [co |-> [variant |-> VariantOf(startLine.Value),
                  Token |-> IF VariantOf(startLine.Value) = "GeneralComponent"
                            THEN startLine.Value ELSE <<>>,
                  Properties |-> res.cb.Properties,
                  Components |-> res.cb.Components],
          nil |-> FALSE, err |-> NoError, pos |-> res.pos]

\* GeneralParseComponent(cs, startLine): [co, nil, err, pos].
GeneralParseComponent(data, pos, startLine) ==
    IF startLine.Value = ComponentVCalendar
    THEN [co |-> NilComponent, nil |-> TRUE,
          err |-> Error("malformed calendar; vcalendar not where expected", <<>>, <<>>),
          pos |-> pos]
    ELSE ParsedComponent(startLine, ParseComponent(data, pos, startLine))

(***************************************************************************)
(* Serialization of components and calendars into a buffer.                *)
(***************************************************************************)
RECURSIVE serializeProperties(_, _, _)
serializeProperties(props, i, cfg) ==
    IF i > Len(props) THEN <<>>
    ELSE serializeProperty(props[i], cfg) \o serializeProperties(props, i + 1, cfg)

RECURSIVE serializeComponents(_, _, _)
RECURSIVE serializeThis(_, _, _)

\* ComponentBase.serializeThis: BEGIN:<type>, the properties, the child
\* components, END:<type>.
serializeThis(co, componentType, cfg) ==
    TokenBegin \o <<COLON>> \o componentType \o cfg.NewLine
    \o serializeProperties(co.Properties, 1, cfg)
    \o serializeComponents(co.Components, 1, cfg)
    \o TokenEnd_ \o <<COLON>> \o componentType \o cfg.NewLine

\* Component.SerializeTo of each component of cos from index i on.
serializeComponents(cos, i, cfg) ==
    IF i > Len(cos) THEN <<>>
    ELSE serializeThis(cos[i], ComponentTypeOf(cos[i]), cfg)
         \o serializeComponents(cos, i + 1, cfg)

\* defaultSerializationOptions: 75 octets a line, the platform's newline
\* (LF on every platform but Windows).
defaultSerializationOptions == [MaxLength |-> 75, NewLine |-> <<LF>>]

\* Calendar.SerializeTo into a buffer.
SerializeCalendar(cal, cfg) ==
    TokenBegin \o <<COLON>> \o ComponentVCalendar \o cfg.NewLine
    \o serializeProperties(cal.CalendarProperties, 1, cfg)
    \o serializeComponents(cal.Components, 1, cfg)
    \o TokenEnd_ \o <<COLON>> \o ComponentVCalendar \o cfg.NewLine

(***************************************************************************)
(* Serialization into an io.Writer that can fail.  The writer counts the   *)
(* calls of Write (n) and keeps them (log): the octets, whether the call   *)
(* succeeded and, for the fold segments of a property, the property's      *)
(* name.  The call number failAt fails, and when sticky every later call.  *)
(***************************************************************************)
NewSink(failAt, sticky) == [n |-> 0, log |-> <<>>, failAt |-> failAt, sticky |-> sticky]

NilError == [nil |-> TRUE, wrapsIO |-> FALSE, property |-> <<>>]

\* The error of the writer, as the writer returned it.
IOError == [nil |-> FALSE, wrapsIO |-> TRUE, property |-> <<>>]

\* fmt.Errorf("property %s serialization: %w", bp.IANAToken, err).
PropertyError(name) == [nil |-> FALSE, wrapsIO |-> TRUE, property |-> name]

\* Whether the call number n of Write fails.
WriteFails(s, n) == s.failAt # 0 /\ (n = s.failAt \/ (s.sticky /\ n > s.failAt))

\* One call of Write: the writer after it, and whether it returned an error.
SinkWrite(s, octets, name) ==
    [sink |-> [s EXCEPT !.n = s.n + 1,
                        !.log = Append(s.log, [octets |-> octets, property |-> name,
                                               ok |-> ~WriteFails(s, s.n + 1)])],
     failed |-> WriteFails(s, s.n + 1)]

\* What a serialization returns: the writer after it and the error.
Serialized(s, err) == [sink |-> s, err |-> err]

\* The last write of serialize: what remains of the line, and a newline.
serializeLast(p, wr) ==
    IF wr.failed THEN Serialized(wr.sink, PropertyError(p.IANAToken))
    ELSE Serialized(wr.sink, NilError)

\* After the write of the space that opens the last continuation line.
serializeSpace(p, wr, rest, cfg) ==
    IF wr.failed THEN Serialized(wr.sink, PropertyError(p.IANAToken))
    ELSE serializeLast(p, SinkWrite(wr.sink, rest \o cfg.NewLine, p.IANAToken))

RECURSIVE serializeFold(_, _, _, _)
RECURSIVE serializeFolded(_, _, _, _)

\* The folding loop of serialize from its condition on, rest being r.
serializeFold(p, s, rest, cfg) ==
    IF Len(rest) > cfg.MaxLength - 1
    THEN serializeFolded(p, SinkWrite(s, <<SP>> \o trimUT8StringUpTo(cfg.MaxLength - 1, rest)
                                         \o cfg.NewLine, p.IANAToken),
                         Slice(rest, Len(trimUT8StringUpTo(cfg.MaxLength - 1, rest)),
                               Len(rest)), cfg)
    ELSE serializeSpace(p, SinkWrite(s, <<SP>>, p.IANAToken), rest, cfg)

\* After the write of a segment: its error is returned, or the loop goes on.
serializeFolded(p, wr, rest, cfg) ==
    IF wr.failed THEN Serialized(wr.sink, PropertyError(p.IANAToken))
    ELSE serializeFold(p, wr.sink, rest, cfg)

\* BaseProperty.serialize from the test of the length of the line on.
serializeLine(p, s, line, cfg) ==
    IF Len(line) > cfg.MaxLength
    THEN serializeFolded(p, SinkWrite(s, trimUT8StringUpTo(cfg.MaxLength, line)
                                         \o cfg.NewLine, p.IANAToken),
                         Slice(line, Len(trimUT8StringUpTo(cfg.MaxLength, line)),
                               Len(line)), cfg)
    ELSE serializeLast(p, SinkWrite(s, line \o cfg.NewLine, p.IANAToken))

\* BaseProperty.serialize to the writer s.
serializeTo(p, s, cfg) == serializeLine(p, s, PropertyLine(p), cfg)

RECURSIVE serializePropertiesTo(_, _, _, _)
\* The loop over the properties from index i on; res is what came before.
serializePropertiesTo(props, i, res, cfg) ==
    IF ~res.err.nil \/ i > Len(props) THEN res
    ELSE serializePropertiesTo(props, i + 1, serializeTo(props[i], res.sink, cfg), cfg)

RECURSIVE serializeComponentsTo(_, _, _, _)
RECURSIVE serializeThisTo(_, _, _, _)

\* What serializeThis returns after the write of its END line.
serializeEnded(wr) == Serialized(wr.sink, IF wr.failed THEN IOError ELSE NilError)

\* The END line of serializeThis, written unless an error has been returned.
serializeEndTo(res, componentType, cfg) ==
    IF ~res.err.nil THEN res
    ELSE serializeEnded(SinkWrite(res.sink, TokenEnd_ \o <<COLON>> \o componentType
                                            \o cfg.NewLine, <<>>))

\* A mutant of serializeThisTo: the child components are written before
\* the properties.
serializeThisToChildrenFirst(co, componentType, s, cfg) ==
    serializeEndTo(
        serializePropertiesTo(co.Properties, 1,
            serializeComponentsTo(co.Components, 1,
                Serialized(SinkWrite(s, TokenBegin \o <<COLON>> \o componentType
                                        \o cfg.NewLine, <<>>).sink, NilError), cfg), cfg),
        componentType, cfg)

\* ComponentBase.serializeThis to the writer s: the error of the BEGIN
\* line is dropped, the error of the END line is returned.
serializeThisTo(co, componentType, s, cfg) ==
    serializeEndTo(
        serializeComponentsTo(co.Components, 1,
            serializePropertiesTo(co.Properties, 1,
                Serialized(SinkWrite(s, TokenBegin \o <<COLON>> \o componentType
                                        \o cfg.NewLine, <<>>).sink, NilError), cfg), cfg),
        componentType, cfg)

\* The loop over the components from index i on; res is what came before.
serializeComponentsTo(cos, i, res, cfg) ==
    IF ~res.err.nil \/ i > Len(cos) THEN res
    ELSE serializeComponentsTo(cos, i + 1,
             serializeThisTo(cos[i], ComponentTypeOf(cos[i]), res.sink, cfg), cfg)

\* The END:VCALENDAR line of Calendar.SerializeTo: its error is dropped.
calendarEndTo(res, cfg) ==
    IF ~res.err.nil THEN res
    ELSE Serialized(SinkWrite(res.sink, TokenEnd_ \o <<COLON>> \o ComponentVCalendar
                                        \o cfg.NewLine, <<>>).sink, NilError)

\* Calendar.SerializeTo to the writer s: the errors of the BEGIN and of
\* the END line are dropped.
CalendarSerializeTo(cal, s, cfg) ==
    calendarEndTo(
        serializeComponentsTo(cal.Components, 1,
            serializePropertiesTo(cal.CalendarProperties, 1,
                Serialized(SinkWrite(s, TokenBegin \o <<COLON>> \o ComponentVCalendar
                                        \o cfg.NewLine, <<>>).sink, NilError), cfg), cfg),
        cfg)

(***************************************************************************)
(* The property list operations of ComponentBase and of Calendar.  A       *)
(* PropertyParameter is a record [Key, Value] (KeyValues); a predicate     *)
(* given to RemovePropertyByFunc is a record that Remove interprets.       *)
(***************************************************************************)
RECURSIVE setParams(_, _, _)
\* The loop "k, v := p.KeyValue(); ICalParameters[k] = v" from index i on.
setParams(m, params, i) ==
    IF i > Len(params) THEN m
    ELSE setParams([x \in DOMAIN m \cup {params[i].Key} |->
                       IF x = params[i].Key THEN params[i].Value ELSE m[x]],
                   params, i + 1)

\* ComponentBase.AddProperty: one property appended.
AddProperty(properties, property, value, params) ==
    Append(properties, [IANAToken |-> property, Value |-> value,
                        ICalParameters |-> setParams(NoParams, params, 1)])

\* A mutant of SetProperty: every property of the name is set.
SetPropertyEvery(properties, property, value, params) ==
    IF \E i \in 1..Len(properties) : properties[i].IANAToken = property
    THEN [i \in 1..Len(properties) |->
             IF properties[i].IANAToken = property
             THEN [IANAToken |-> property, Value |-> value,
                   ICalParameters |-> setParams(NoParams, params, 1)]
             ELSE properties[i]]
    ELSE AddProperty(properties, property, value, params)

RECURSIVE setPropertyLoop(_, _, _, _, _)
\* The loop of SetProperty from index i on.
setPropertyLoop(properties, i, property, value, params) ==
    IF i > Len(properties) THEN AddProperty(properties, property, value, params)
    ELSE IF properties[i].IANAToken = property
    THEN [properties EXCEPT ![i] = [IANAToken |-> property, Value |-> value,
                                    ICalParameters |-> setParams(NoParams, params, 1)]]
    ELSE setPropertyLoop(properties, i + 1, property, value, params)

\* ComponentBase.SetProperty: the Properties after the call.
SetProperty(properties, property, value, params) ==
    setPropertyLoop(properties, 1, property, value, params)

RECURSIVE calendarSetPropertyLoop(_, _, _, _, _)
\* The loop of Calendar.setProperty from index i on, and the append after it.
calendarSetPropertyLoop(properties, i, property, value, params) ==
    IF i > Len(properties)
    THEN Append(properties, [IANAToken |-> property, Value |-> value,
                             ICalParameters |-> setParams(NoParams, params, 1)])
    ELSE IF properties[i].IANAToken = property
    THEN [properties EXCEPT ![i] = [IANAToken |-> property, Value |-> value,
                                    ICalParameters |-> setParams(NoParams, params, 1)]]
    ELSE calendarSetPropertyLoop(properties, i + 1, property, value, params)

\* Calendar.setProperty: the CalendarProperties after the call.
CalendarSetProperty(properties, property, value, params) ==
    calendarSetPropertyLoop(properties, 1, property, value, params)

\* What the removing operations leave and return.
Removal(kept, removedProperties) == [kept |-> kept, removed |-> removedProperties]

\* A mutant of RemoveProperty: the last property of the list is always kept.
RemovePropertyButLast(properties, removeProp) ==
    Removal(SelectSeq(properties, LAMBDA p : p.IANAToken # removeProp)
            \o (IF properties # <<>> /\ properties[Len(properties)].IANAToken = removeProp
                THEN <<properties[Len(properties)]>> ELSE <<>>),
            SelectSeq(SubSeq(properties, 1, Len(properties) - 1),
                      LAMBDA p : p.IANAToken = removeProp))

RECURSIVE removePropertyLoop(_, _, _, _)
\* The loop of RemoveProperty from index i on.
removePropertyLoop(properties, i, removeProp, acc) ==
    IF i > Len(properties) THEN acc
    ELSE IF properties[i].IANAToken # removeProp
    THEN removePropertyLoop(properties, i + 1, removeProp,
                            Removal(Append(acc.kept, properties[i]), acc.removed))
    ELSE removePropertyLoop(properties, i + 1, removeProp,
                            Removal(acc.kept, Append(acc.removed, properties[i])))

\* ComponentBase.RemoveProperty: the Properties after the call and the
\* slice returned.
RemoveProperty(properties, removeProp) ==
    removePropertyLoop(properties, 1, removeProp, Removal(<<>>, <<>>))

\* The call remove(p) of a predicate: the closure of RemovePropertyByValue
\* (p.Value == value) or a function of the caller's.
Remove(f, p) ==
    CASE f.kind = "value" -> p.Value = f.value
      [] f.kind = "hasParameters" -> DOMAIN p.ICalParameters # {}
      [] f.kind = "always" -> TRUE
      [] OTHER -> FALSE

RECURSIVE removePropertyByFuncLoop(_, _, _, _, _)
\* The loop of RemovePropertyByFunc from index i on.
removePropertyByFuncLoop(properties, i, removeProp, f, acc) ==
    IF i > Len(properties) THEN acc
    ELSE IF properties[i].IANAToken # removeProp /\ Remove(f, properties[i])
    THEN removePropertyByFuncLoop(properties, i + 1, removeProp, f,
                                  Removal(Append(acc.kept, properties[i]), acc.removed))
    ELSE removePropertyByFuncLoop(properties, i + 1, removeProp, f,
                                  Removal(acc.kept, Append(acc.removed, properties[i])))

\* ComponentBase.RemovePropertyByFunc.
RemovePropertyByFunc(properties, removeProp, f) ==
    removePropertyByFuncLoop(properties, 1, removeProp, f, Removal(<<>>, <<>>))

\* ComponentBase.RemovePropertyByValue.
RemovePropertyByValue(properties, removeProp, value) ==
    RemovePropertyByFunc(properties, removeProp, [kind |-> "value", value |-> value])

NoCall == [name |-> "none"]

(***************************************************************************)
(* Each specification drives one part of the library; the variables of the *)
(* other parts stay idle.                                                  *)
(***************************************************************************)
TextIdle == txt = <<>> /\ esc = <<>> /\ unesc = <<>> /\ tpc = "idle"

FoldIdle ==
    /\ bp = [IANAToken |-> <<>>, ICalParameters |-> NoParams, Value |-> <<>>]
    /\ serialConfig = defaultSerializationOptions
    /\ r = <<>>
    /\ w = <<>>
    /\ nwrites = 0
    /\ spc = "idle"
    /\ unfolded = ReadLineResult(<<>>, "EOF", 0)

PropIdle ==
    /\ inputLine = <<>>
    /\ parsed = [nil |-> TRUE, prop |-> NilProperty, err |-> NoError]
    /\ ppc = "idle"

NilCalendar == [CalendarProperties |-> <<>>, Components |-> <<>>]

\* What ParseCalendar returns: nil says that the *Calendar is nil.
Returned(isNil, c, err) == [nil |-> isNil, cal |-> c, err |-> err]

ParseIdle ==
    /\ inputLines = <<>>
    /\ stream = <<>>
    /\ cs = 0
    /\ state = "begin"
    /\ calendar = NilCalendar
    /\ loopCont = FALSE
    /\ result = Returned(TRUE, NilCalendar, NoError)
    /\ pass = 0
    /\ first = Returned(TRUE, NilCalendar, NoError)
    /\ cpc = "idle"

ReadIdle ==
    /\ rstream = <<>>
    /\ rcs = 0
    /\ got = <<>>
    /\ rpc = "idle"

MapIdle ==
    /\ iter = <<>>

SinkIdle ==
    /\ scal = NilCalendar
    /\ sinkConfig = defaultSerializationOptions
    /\ sink = NewSink(0, FALSE)
    /\ serr = NilError
    /\ kpc = "idle"

CompIdle ==
    /\ plist = <<>>
    /\ before = <<>>
    /\ call = NoCall
    /\ removed = <<>>
    /\ opc = "idle"

GroupIdle ==
    /\ items = <<>>

(***************************************************************************)
(* Specification of TEXT escaping: a caller escapes a string with ToText   *)
(* and decodes the result with FromText.                                   *)
(***************************************************************************)
TextAlphabet == {BSLASH, LF, SEMI, COMMA, LowerN, UpperN, 97}

TextInit ==
    /\ txt \in SeqsUpTo(TextAlphabet, MaxTextLen)
    /\ esc = <<>>
    /\ unesc = <<>>
    /\ tpc = "start"
    /\ FoldIdle
    /\ PropIdle
    /\ ParseIdle
    /\ ReadIdle
    /\ MapIdle
    /\ SinkIdle
    /\ CompIdle
    /\ GroupIdle

TextEscape ==
    /\ tpc = "start"
    /\ esc' = ToText(txt)
    /\ tpc' = "escaped"
    /\ UNCHANGED <<txt, unesc>>
    /\ UNCHANGED foldVars
    /\ UNCHANGED propVars
    /\ UNCHANGED parseVars
    /\ UNCHANGED readVars
    /\ UNCHANGED mapVars
    /\ UNCHANGED sinkVars
    /\ UNCHANGED compVars
    /\ UNCHANGED groupVars

TextUnescape ==
    /\ tpc = "escaped"
    /\ unesc' = FromText(esc)
    /\ tpc' = "unescaped"
    /\ UNCHANGED <<txt, esc>>
    /\ UNCHANGED foldVars
    /\ UNCHANGED propVars
    /\ UNCHANGED parseVars
    /\ UNCHANGED readVars
    /\ UNCHANGED mapVars
    /\ UNCHANGED sinkVars
    /\ UNCHANGED compVars
    /\ UNCHANGED groupVars

TextNext == TextEscape \/ TextUnescape

SpecText == TextInit /\ [][TextNext]_vars

\* C5: TEXT escaping is inverted by TEXT unescaping: FromText(ToText(s)) = s
\* for every string s, whatever mix of backslash, newline, ';' and ',' it holds.
C5_EscapeRoundTrip == tpc = "unescaped" => unesc = txt

\* A string holding each of the four special characters has gone through both steps.
C5_Witness ==
    /\ tpc = "unescaped"
    /\ {BSLASH, LF, SEMI, COMMA} \subseteq {txt[i] : i \in 1..Len(txt)}
    /\ Len(esc) = 2 * Len(txt)

(***************************************************************************)
(* Specification of BaseProperty.serialize followed by a read-back: one    *)
(* property is written to a writer that never fails, one write per step,   *)
(* and CalendarStream.ReadLine then reads the bytes written.               *)
(***************************************************************************)
\* The building blocks of property values: 'a', space, carriage return, ',',
\* the two-byte rune U+00E9, the three-byte rune U+4E16, and a lone
\* continuation byte (not valid UTF-8).
FoldAtoms == {<<97>>, <<SP>>, <<CR>>, <<COMMA>>, <<195, 169>>, <<228, 184, 150>>, <<169>>}

FoldInit ==
    /\ TextIdle
    /\ PropIdle
    /\ ParseIdle
    /\ ReadIdle
    /\ MapIdle
    /\ SinkIdle
    /\ CompIdle
    /\ GroupIdle
    /\ \E atoms \in SeqsUpTo(FoldAtoms, MaxValueAtoms) :
           bp = [IANAToken |-> <<65>>, ICalParameters |-> NoParams,
                 Value |-> Concat(atoms)]
    /\ serialConfig \in [MaxLength : 1..MaxMaxLength, NewLine : {<<LF>>, <<CR, LF>>}]
    /\ r = <<>>
    /\ w = <<>>
    /\ nwrites = 0
    /\ spc = "start"
    /\ unfolded = ReadLineResult(<<>>, "EOF", 0)

\* serialize up to the end of its first "if": the line is assembled and, when
\* it is longer than MaxLength, its first segment is written.
SerializeStart ==
    /\ spc = "start"
    /\ LET line == PropertyLine(bp)
       IN  IF Len(line) > serialConfig.MaxLength
           THEN LET l == trimUT8StringUpTo(serialConfig.MaxLength, line)
                IN  /\ w' = w \o l \o serialConfig.NewLine
                    /\ nwrites' = nwrites + 1
                    /\ r' = Slice(line, Len(l), Len(line))
                    /\ spc' = "fold"
           ELSE /\ r' = line
                /\ spc' = "last"
                /\ UNCHANGED <<w, nwrites>>
    /\ UNCHANGED <<bp, serialConfig, unfolded>>
    /\ UNCHANGED textVars
    /\ UNCHANGED propVars
    /\ UNCHANGED parseVars
    /\ UNCHANGED readVars
    /\ UNCHANGED mapVars
    /\ UNCHANGED sinkVars
    /\ UNCHANGED compVars
    /\ UNCHANGED groupVars

\* One iteration of the folding loop: a space, a segment, a newline.
SerializeFold ==
    /\ spc = "fold"
    /\ Len(r) > serialConfig.MaxLength - 1
    /\ nwrites < MaxWrites
    /\ LET l == trimUT8StringUpTo(serialConfig.MaxLength - 1, r)
       IN  /\ w' = w \o <<SP>> \o l \o serialConfig.NewLine
           /\ r' = Slice(r, Len(l), Len(r))
    /\ nwrites' = nwrites + 1
    /\ UNCHANGED <<bp, serialConfig, spc, unfolded>>
    /\ UNCHANGED textVars
    /\ UNCHANGED propVars
    /\ UNCHANGED parseVars
    /\ UNCHANGED readVars
    /\ UNCHANGED mapVars
    /\ UNCHANGED sinkVars
    /\ UNCHANGED compVars
    /\ UNCHANGED groupVars

\* The folding loop has ended: the space that opens the last continuation line.
SerializeFoldEnd ==
    /\ spc = "fold"
    /\ ~(Len(r) > serialConfig.MaxLength - 1)
    /\ w' = w \o <<SP>>
    /\ nwrites' = nwrites + 1
    /\ spc' = "last"
    /\ UNCHANGED <<bp, serialConfig, r, unfolded>>
    /\ UNCHANGED textVars
    /\ UNCHANGED propVars
    /\ UNCHANGED parseVars
    /\ UNCHANGED readVars
    /\ UNCHANGED mapVars
    /\ UNCHANGED sinkVars
    /\ UNCHANGED compVars
    /\ UNCHANGED groupVars

\* The last write: what remains of the line, and a newline.
SerializeLast ==
    /\ spc = "last"
    /\ w' = w \o r \o serialConfig.NewLine
    /\ nwrites' = nwrites + 1
    /\ r' = <<>>
    /\ spc' = "done"
    /\ UNCHANGED <<bp, serialConfig, unfolded>>
    /\ UNCHANGED textVars
    /\ UNCHANGED propVars
    /\ UNCHANGED parseVars
    /\ UNCHANGED readVars
    /\ UNCHANGED mapVars
    /\ UNCHANGED sinkVars
    /\ UNCHANGED compVars
    /\ UNCHANGED groupVars

\* The bytes written are read back as one logical line.
ReadBack ==
    /\ spc = "done"
    /\ unfolded' = ReadLine(w, 0)
    /\ spc' = "read"
    /\ UNCHANGED <<bp, serialConfig, r, w, nwrites>>
    /\ UNCHANGED textVars
    /\ UNCHANGED propVars
    /\ UNCHANGED parseVars
    /\ UNCHANGED readVars
    /\ UNCHANGED mapVars
    /\ UNCHANGED sinkVars
    /\ UNCHANGED compVars
    /\ UNCHANGED groupVars

FoldNext ==
    \/ SerializeStart
    \/ SerializeFold
    \/ SerializeFoldEnd
    \/ SerializeLast
    \/ ReadBack

SpecFold == FoldInit /\ [][FoldNext]_vars

RECURSIVE SplitLines(_, _)
\* The lines of the bytes out that a LF completes, each without its LF and
\* without the CR of the newline sequence nl when nl is CR LF.
SplitLines(out, nl) ==
    LET j == IndexFrom(out, 0, LF)
    IN  IF j = 0 THEN <<>>
        ELSE LET piece == SubSeq(out, 1, j - 1)
                 content == IF nl = <<CR, LF>> /\ Len(piece) > 0 /\ piece[Len(piece)] = CR
                            THEN SubSeq(piece, 1, Len(piece) - 1)
                            ELSE piece
             IN  <<content>> \o SplitLines(SubSeq(out, j + 1, Len(out)), nl)

\* The physical lines written so far.
PhysicalLines == SplitLines(w, serialConfig.NewLine)

RECURSIVE ValidUTF8From(_, _)
ValidUTF8From(s, i) ==
    IF i >= Len(s) THEN TRUE
    ELSE LET d == DecodeRune(s, i)
         IN  (ByteAt(s, i) < 128 \/ d.size > 1) /\ ValidUTF8From(s, i + d.size)

\* utf8.ValidString
ValidUTF8(s) == ValidUTF8From(s, 0)

\* The line was longer than the configured maximum, so serialize folded it.
Folded == Len(PropertyLine(bp)) > serialConfig.MaxLength

\* C2: when the serializer folds a line longer than the configured maximum,
\* reading the physical lines back through ReadLine yields the original
\* logical line, byte for byte.
C2_FoldUnfoldRoundTrip ==
    (spc = "read" /\ Folded) =>
        (~unfolded.nil /\ unfolded.line = PropertyLine(bp))

\* C3: no physical line written exceeds the configured maximum number of
\* octets, the newline sequence not counted and the leading space of a
\* continuation line counted.
C3_NoLineExceedsMax ==
    \A i \in 1..Len(PhysicalLines) : Len(PhysicalLines[i]) <= serialConfig.MaxLength

\* A line was folded into at least three physical lines, the first of which
\* and a continuation line are exactly as long as the maximum.
C3_Witness ==
    /\ spc = "done"
    /\ Folded
    /\ Len(PhysicalLines) >= 3
    /\ Len(PhysicalLines[1]) = serialConfig.MaxLength
    /\ Len(PhysicalLines[2]) = serialConfig.MaxLength
    /\ PhysicalLines[2][1] = SP

\* C4: when the rendered line is valid UTF-8, every physical line written is
\* valid UTF-8 too: no fold falls inside a multi-byte code point.
C4_FoldKeepsRunesWhole ==
    ValidUTF8(PropertyLine(bp)) =>
        \A i \in 1..Len(PhysicalLines) : ValidUTF8(PhysicalLines[i])

\* A valid line has been folded where a cut after MaxLength bytes would have
\* fallen inside a multi-byte code point.
C4_Witness ==
    /\ spc = "done"
    /\ Folded
    /\ ValidUTF8(PropertyLine(bp))
    /\ IsCont(PropertyLine(bp)[serialConfig.MaxLength + 1])

\* C24: for every maximum line length of at least 1 the serialization of a
\* property ends after a finite number of octets: each iteration of the
\* folding loop takes at least one octet off what remains of the line, also
\* when the segment allowed is shorter than the next code point.
C24_FoldLoopConsumes ==
    [][(spc = "fold" /\ spc' = "fold") => Len(r') < Len(r)]_vars

(***************************************************************************)
(* Specification of the property grammar parser: ParseProperty is applied  *)
(* to one content line.  The lines are a property name and the start of a  *)
(* parameter, followed by every short string over the characters the       *)
(* parameter grammar distinguishes.                                        *)
(***************************************************************************)
\* Lines that stop inside a parameter name.
NamePrefixes == {<<65, 59, 66>>, <<65, 59, 66, 61, 120, 59, 67>>}      \* "A;B", "A;B=x;C"

\* Lines that stop where a parameter value begins.
ValuePrefixes == {<<65, 59, 66, 61>>, <<65, 59, 66, 61, 120, 44>>, <<65, 59, 66, 61, 120, 59, 67, 61>>}    \* "A;B=", "A;B=x,", "A;B=x;C="

\* '=', '"', ':', ';', ',', backslash, 'x' and the control character 0x01.
PropAlphabet == {EQ, DQUOTE, COLON, SEMI, COMMA, BSLASH, 120, 1}

PropInit ==
    /\ TextIdle
    /\ FoldIdle
    /\ ParseIdle
    /\ ReadIdle
    /\ MapIdle
    /\ SinkIdle
    /\ CompIdle
    /\ GroupIdle
    /\ \E pre \in NamePrefixes \cup ValuePrefixes :
       \E suf \in SeqsUpTo(PropAlphabet, MaxSuffixLen) :
           inputLine = pre \o suf
    /\ parsed = [nil |-> TRUE, prop |-> NilProperty, err |-> NoError]
    /\ ppc = "start"

ParseLine ==
    /\ ppc = "start"
    /\ parsed' = ParseProperty(inputLine)
    /\ ppc' = "parsed"
    /\ UNCHANGED inputLine
    /\ UNCHANGED textVars
    /\ UNCHANGED foldVars
    /\ UNCHANGED parseVars
    /\ UNCHANGED readVars
    /\ UNCHANGED mapVars
    /\ UNCHANGED sinkVars
    /\ UNCHANGED compVars
    /\ UNCHANGED groupVars

PropNext == ParseLine

SpecProp == PropInit /\ [][PropNext]_vars

\* line = pre \o (the rest of line)
HasPrefix(line, pre) == Len(line) >= Len(pre) /\ SubSeq(line, 1, Len(pre)) = pre

After(line, pre) == SubSeq(line, Len(pre) + 1, Len(line))

RECURSIVE FirstUnescaped(_, _, _)
\* The 1-based index of the first byte of v at or after i that is in stops
\* and is not preceded by an escaping backslash; Len(v) + 1 if there is none.
FirstUnescaped(v, i, stops) ==
    IF i > Len(v) THEN Len(v) + 1
    ELSE IF v[i] \in stops THEN i
    ELSE IF v[i] = BSLASH THEN FirstUnescaped(v, i + 2, stops)
    ELSE FirstUnescaped(v, i + 1, stops)

\* The name that starts with the last name of pre and goes on in suf.
NameLen(suf) == TokenEnd(suf, 0)

\* A parameter name is not followed by '='.
MissingEquals(suf) == NameLen(suf) = Len(suf) \/ suf[NameLen(suf) + 1] # EQ

\* A value opens with a double quote that no later unescaped double quote closes.
UnclosedQuote(v) ==
    Len(v) > 0 /\ v[1] = DQUOTE /\ FirstUnescaped(v, 2, {DQUOTE}) > Len(v)

\* An unquoted value holds a double quote before its end.
QuoteInUnquoted(v) ==
    /\ Len(v) > 0 /\ v[1] # DQUOTE
    /\ LET i == FirstUnescaped(v, 1, {SEMI, COLON, COMMA, DQUOTE})
       IN  i <= Len(v) /\ v[i] = DQUOTE

\* Where the value that starts v ends: before its closing quote, or before
\* the first unescaped ';', ':' or ','.
ValueEnd(v) ==
    IF Len(v) > 0 /\ v[1] = DQUOTE THEN FirstUnescaped(v, 2, {DQUOTE})
    ELSE FirstUnescaped(v, 1, {SEMI, COLON, COMMA})

\* The value that starts v holds a control character 0x00-0x08 or 0x0A-0x1F.
ControlInValue(v) ==
    \E i \in 1..Len(v) : i < ValueEnd(v) /\ IsRejectedControl(v[i])

\* C9: ParseProperty returns an error and no property for a line in which a
\* parameter name is not followed by '=' (the error names the parameter and
\* the property), a quoted parameter value is not closed, a double quote
\* appears inside an unquoted parameter value, or a parameter value holds a
\* control character in 0x00-0x08 or 0x0A-0x1F.
C9_ParamGrammarErrors ==
    ppc = "parsed" =>
        /\ \A pre \in NamePrefixes :
             (HasPrefix(inputLine, pre) /\ MissingEquals(After(inputLine, pre))) =>
                 /\ parsed.nil
                 /\ parsed.err.kind \in {"missing property param operator",
                                         "missing property value"}
                 /\ parsed.err.k = <<pre[Len(pre)]>>
                        \o SubSeq(After(inputLine, pre), 1,
                                  NameLen(After(inputLine, pre)))
                 /\ parsed.err.token = <<65>>
        /\ \A pre \in ValuePrefixes :
             (/\ HasPrefix(inputLine, pre)
              /\ \/ UnclosedQuote(After(inputLine, pre))
                 \/ QuoteInUnquoted(After(inputLine, pre))
                 \/ ControlInValue(After(inputLine, pre))) =>
                 (parsed.nil /\ parsed.err # NoError)

(***************************************************************************)
(* Specification of ParseCalendar: a text made of content lines is parsed, *)
(* one iteration of the loop of ParseCalendar a step; a calendar that      *)
(* parsed is serialized with the default options and the output is parsed  *)
(* again.                                                                  *)
(***************************************************************************)
LineBeginCalendar == <<66, 69, 71, 73, 78, 58, 86, 67, 65, 76, 69, 78, 68, 65, 82>>    \* BEGIN:VCALENDAR
LineEndCalendar == <<69, 78, 68, 58, 86, 67, 65, 76, 69, 78, 68, 65, 82>>    \* END:VCALENDAR
LineBeginEvent == <<66, 69, 71, 73, 78, 58, 86, 69, 86, 69, 78, 84>>    \* BEGIN:VEVENT
LineEndEvent == <<69, 78, 68, 58, 86, 69, 86, 69, 78, 84>>    \* END:VEVENT
LineBeginOther == <<66, 69, 71, 73, 78, 58, 90, 92, 92, 44>>    \* BEGIN:Z\\,
LineEndOther == <<69, 78, 68, 58, 90, 92, 92, 44>>    \* END:Z\\,
LineProperty == <<83, 59, 80, 61, 97, 92, 59, 98, 58, 120, 92, 44, 121>>    \* S;P=a\;b:x\,y
LineNoColon == <<81>>    \* Q
LineNoOperator == <<65, 59, 66>>    \* A;B
LineValueCR == <<88, 58, 97, 13, 13>>    \* X:a<CR><CR>

LinePool == {LineBeginCalendar, LineEndCalendar, LineBeginEvent, LineEndEvent,
             LineBeginOther, LineEndOther, LineProperty, LineNoColon, LineNoOperator,
             LineValueCR}

MaxLines == 4

RECURSIVE JoinLines(_, _, _)
\* The lines from index i on, a LF after each but after the last one, which
\* has a LF only when the text ends with a newline.
JoinLines(ls, i, trailing) ==
    IF i > Len(ls) THEN <<>>
    ELSE ls[i] \o (IF i < Len(ls) \/ trailing THEN <<LF>> ELSE <<>>)
         \o JoinLines(ls, i + 1, trailing)

ParseInit ==
    /\ TextIdle
    /\ FoldIdle
    /\ PropIdle
    /\ ReadIdle
    /\ MapIdle
    /\ SinkIdle
    /\ CompIdle
    /\ GroupIdle
    /\ inputLines \in SeqsUpTo(LinePool, MaxLines)
    /\ \E trailing \in BOOLEAN :
           /\ inputLines = <<>> => trailing
           /\ stream = JoinLines(inputLines, 1, trailing)
    /\ cs = 0
    /\ state = "begin"
    /\ calendar = NilCalendar
    /\ loopCont = TRUE
    /\ result = Returned(TRUE, NilCalendar, NoError)
    /\ pass = 1
    /\ first = Returned(TRUE, NilCalendar, NoError)
    /\ cpc = "loop"

\* A mutant of ReturnError: the calendar built so far is returned with the
\* error.
ReturnErrorWithCalendar(err) ==
    /\ result' = Returned(FALSE, calendar, err)
    /\ cpc' = "returned"
    /\ UNCHANGED <<state, calendar>>

\* ParseCalendar returns the error err and no calendar.
ReturnError(err) ==
    /\ result' = Returned(TRUE, NilCalendar, err)
    /\ cpc' = "returned"
    /\ UNCHANGED <<state, calendar>>

\* The BEGIN case of "components" once GeneralParseComponent has returned sub.
CalendarChild(sub) ==
    /\ cs' = sub.pos
    /\ IF sub.err # NoError
       THEN ReturnError(sub.err)
       ELSE /\ calendar' = IF sub.nil THEN calendar
                           ELSE [calendar EXCEPT !.Components = Append(@, sub.co)]
            /\ state' = "components"
            /\ UNCHANGED <<result, cpc>>

\* A mutant of CaseComponents: a property line is taken as a property of the
\* calendar and the state goes back to "properties".
CaseComponentsTakingProperties(line, pos) ==
    IF line.IANAToken = TokenEnd_
    THEN IF line.Value = ComponentVCalendar
         THEN /\ state' = "end"
              /\ cs' = pos
              /\ UNCHANGED <<calendar, result, cpc>>
         ELSE /\ ReturnError(Error("malformed calendar; expected end", <<>>, <<>>))
              /\ cs' = pos
    ELSE IF line.IANAToken = TokenBegin
    THEN CalendarChild(GeneralParseComponent(stream, pos, line))
    ELSE /\ calendar' = [calendar EXCEPT !.CalendarProperties = Append(@, line)]
         /\ state' = "properties"
         /\ cs' = pos
         /\ UNCHANGED <<result, cpc>>

\* The "components" case of the switch on state, for the property line.
CaseComponents(line, pos) ==
    IF line.IANAToken = TokenEnd_
    THEN IF line.Value = ComponentVCalendar
         THEN /\ state' = "end"
              /\ cs' = pos
              /\ UNCHANGED <<calendar, result, cpc>>
         ELSE /\ ReturnError(Error("malformed calendar; expected end", <<>>, <<>>))
              /\ cs' = pos
    ELSE IF line.IANAToken = TokenBegin
    THEN CalendarChild(GeneralParseComponent(stream, pos, line))
    ELSE /\ ReturnError(Error("malformed calendar; expected begin or end", <<>>, <<>>))
         /\ cs' = pos

\* A "begin" case that takes a BEGIN line of any value for the calendar's.
CaseBeginAnyValue(line) ==
    IF line.IANAToken = TokenBegin
    THEN /\ state' = "properties"
         /\ UNCHANGED <<calendar, result, cpc>>
    ELSE ReturnError(Error("malformed calendar; expected begin", <<>>, <<>>))

\* The "begin" case of the switch on state.
CaseBegin(line) ==
    IF line.IANAToken = TokenBegin
    THEN IF line.Value = ComponentVCalendar
         THEN /\ state' = "properties"
              /\ UNCHANGED <<calendar, result, cpc>>
         ELSE ReturnError(Error("malformed calendar; expected a vcalendar", <<>>, <<>>))
    ELSE ReturnError(Error("malformed calendar; expected begin", <<>>, <<>>))

\* A mutant of CaseProperties: the property is not added to the calendar.
CasePropertiesDropping(line, pos) ==
    IF line.IANAToken = TokenEnd_
    THEN IF line.Value = ComponentVCalendar
         THEN /\ state' = "end"
              /\ cs' = pos
              /\ UNCHANGED <<calendar, result, cpc>>
         ELSE /\ ReturnError(Error("malformed calendar; expected end", <<>>, <<>>))
              /\ cs' = pos
    ELSE IF line.IANAToken = TokenBegin
    THEN CaseComponents(line, pos)
    ELSE /\ cs' = pos
         /\ UNCHANGED <<state, calendar, result, cpc>>

\* The "properties" case of the switch on state; a BEGIN line falls through
\* to the "components" case.
CaseProperties(line, pos) ==
    IF line.IANAToken = TokenEnd_
    THEN IF line.Value = ComponentVCalendar
         THEN /\ state' = "end"
              /\ cs' = pos
              /\ UNCHANGED <<calendar, result, cpc>>
         ELSE /\ ReturnError(Error("malformed calendar; expected end", <<>>, <<>>))
              /\ cs' = pos
    ELSE IF line.IANAToken = TokenBegin
    THEN CaseComponents(line, pos)
    ELSE /\ calendar' = [calendar EXCEPT !.CalendarProperties = Append(@, line)]
         /\ cs' = pos
         /\ UNCHANGED <<state, result, cpc>>

\* The body of the loop once ParseProperty has returned line.
CalendarProperty(line, pos) ==
    IF line.err # NoError
    THEN ReturnError(line.err) /\ cs' = pos
    ELSE IF line.nil
    THEN ReturnError(Error("parsing calendar line", <<>>, <<>>)) /\ cs' = pos
    ELSE IF state = "begin" THEN CaseBegin(line.prop) /\ cs' = pos
    ELSE IF state = "properties" THEN CaseProperties(line.prop, pos)
    ELSE IF state = "components" THEN CaseComponents(line.prop, pos)
    ELSE IF state = "end"
    THEN ReturnError(Error("malformed calendar; unexpected end", <<>>, <<>>)) /\ cs' = pos
    ELSE ReturnError(Error("malformed calendar; bad state", <<>>, <<>>)) /\ cs' = pos

\* The body of the loop once ReadLine has returned rl: io.EOF ends the loop
\* after this iteration, an empty line is skipped.
CalendarLine(rl) ==
    /\ loopCont' = (rl.err = "nil")
    /\ IF rl.nil \/ Len(rl.line) = 0
       THEN /\ cs' = rl.pos
            /\ UNCHANGED <<state, calendar, result, cpc>>
       ELSE CalendarProperty(ParseProperty(rl.line), rl.pos)

\* One iteration of the loop of ParseCalendar.
ParseCalendarStep ==
    /\ cpc = "loop"
    /\ loopCont
    /\ CalendarLine(ReadLine(stream, cs))
    /\ UNCHANGED <<inputLines, stream, pass, first>>
    /\ UNCHANGED textVars
    /\ UNCHANGED foldVars
    /\ UNCHANGED propVars
    /\ UNCHANGED readVars
    /\ UNCHANGED mapVars
    /\ UNCHANGED sinkVars
    /\ UNCHANGED compVars
    /\ UNCHANGED groupVars

\* The loop of ParseCalendar ends when ReadLine has returned io.EOF: the
\* calendar built so far is returned with a nil error.
ParseCalendarReturn ==
    /\ cpc = "loop"
    /\ ~loopCont
    /\ result' = Returned(FALSE, calendar, NoError)
    /\ cpc' = "returned"
    /\ UNCHANGED <<inputLines, stream, cs, state, calendar, loopCont, pass, first>>
    /\ UNCHANGED textVars
    /\ UNCHANGED foldVars
    /\ UNCHANGED propVars
    /\ UNCHANGED readVars
    /\ UNCHANGED mapVars
    /\ UNCHANGED sinkVars
    /\ UNCHANGED compVars
    /\ UNCHANGED groupVars

\* The caller serializes the calendar it got (Calendar.Serialize with the
\* default options) and calls ParseCalendar on the output.
SerializeAndParseAgain ==
    /\ cpc = "returned"
    /\ pass = 1
    /\ ~result.nil
    /\ result.err = NoError
    /\ first' = result
    /\ stream' = SerializeCalendar(result.cal, defaultSerializationOptions)
    /\ cs' = 0
    /\ state' = "begin"
    /\ calendar' = NilCalendar
    /\ loopCont' = TRUE
    /\ result' = Returned(TRUE, NilCalendar, NoError)
    /\ pass' = 2
    /\ cpc' = "loop"
    /\ UNCHANGED inputLines
    /\ UNCHANGED textVars
    /\ UNCHANGED foldVars
    /\ UNCHANGED propVars
    /\ UNCHANGED readVars
    /\ UNCHANGED mapVars
    /\ UNCHANGED sinkVars
    /\ UNCHANGED compVars
    /\ UNCHANGED groupVars

ParseNext ==
    \/ ParseCalendarStep
    \/ ParseCalendarReturn
    \/ SerializeAndParseAgain

SpecParse == ParseInit /\ [][ParseNext]_vars

\* ParseCalendar has returned from the first pass, from the second pass.
FirstPassReturned == pass = 1 /\ cpc = "returned"
SecondPassReturned == pass = 2 /\ cpc = "returned"

\* C1: for every text on which ParseCalendar succeeds, ParseCalendar of the
\* serialization of the result succeeds too and yields an equal calendar:
\* the same calendar properties and the same component tree.
C1_ParseSerializeParse ==
    SecondPassReturned =>
        /\ ~result.nil
        /\ result.err = NoError
        /\ result.cal = first.cal

\* C14: for every text on which ParseCalendar succeeds, the serialization
\* of the calendar parsed from the serialization is, octet for octet, the
\* serialization it was parsed from, both written with the same options.
C14_SerializationStable ==
    (SecondPassReturned /\ ~first.nil /\ first.err = NoError) =>
        /\ ~result.nil
        /\ result.err = NoError
        /\ SerializeCalendar(result.cal, defaultSerializationOptions) = stream

\* The place of a state of ParseCalendar in the order begin, properties,
\* components, end.
StateRank(st) ==
    CASE st = "begin" -> 0
      [] st = "properties" -> 1
      [] st = "components" -> 2
      [] OTHER -> 3

\* The content line that the next iteration of the loop reads is a property
\* line that is neither a BEGIN nor an END line.
ReadsProperty(line) ==
    /\ ~line.nil
    /\ line.err = NoError
    /\ line.prop.IANAToken \notin {TokenBegin, TokenEnd_}

\* The next iteration of the loop reads a content line.
ReadsContentLine(rl) == ~rl.nil /\ Len(rl.line) > 0

C6_NilErrorOnlyAfterEnd ==
    (FirstPassReturned /\ result.err = NoError) =>
        /\ state = "end"
        /\ \E i \in 1..Len(inputLines) : inputLines[i] = LineEndCalendar
        /\ inputLines # <<>> /\ inputLines[1] = LineBeginCalendar

(***************************************************************************)
(* The nesting of the content lines, read off the lines themselves: what a *)
(* line opens or closes is the text after its colon.                       *)
(***************************************************************************)
BeginLines == {LineBeginCalendar, LineBeginEvent, LineBeginOther}
EndLines == {LineEndCalendar, LineEndEvent, LineEndOther}
PropertyLines == {LineProperty, LineValueCR}

\* The text after the first colon of a BEGIN or END line.
TypeText(l) == IF l \in BeginLines THEN SubSeq(l, 7, Len(l)) ELSE SubSeq(l, 5, Len(l))

RECURSIVE ChildWalk(_, _, _)
\* The fate of the child components open at line i, innermost last in open:
\* "completed" with the index of the line after the END that closes the
\* outermost of them, or the first thing that goes wrong.
ChildWalk(ls, i, open) ==
    IF open = <<>> THEN [kind |-> "completed", at |-> i]
    ELSE IF i > Len(ls) THEN [kind |-> "ran out of lines", at |-> i]
    ELSE IF ls[i] \in EndLines
    THEN IF TypeText(ls[i]) = open[Len(open)]
         THEN ChildWalk(ls, i + 1, SubSeq(open, 1, Len(open) - 1))
         ELSE [kind |-> "unbalanced end", at |-> i]
    ELSE IF ls[i] = LineBeginCalendar
    THEN [kind |-> "malformed calendar; vcalendar not where expected", at |-> i]
    ELSE IF ls[i] \in BeginLines
    THEN ChildWalk(ls, i + 1, Append(open, TypeText(ls[i])))
    ELSE IF ls[i] \in PropertyLines THEN ChildWalk(ls, i + 1, open)
    ELSE [kind |-> "not a property", at |-> i]

RECURSIVE ChildrenWalk(_, _, _)
\* The children of the calendar from line i on, n of them completed so far:
\* the fate of the first child that is not completed, if there is one, and
\* the number of children completed before anything else happens.
ChildrenWalk(ls, i, n) ==
    IF i <= Len(ls) /\ ls[i] \in BeginLines \ {LineBeginCalendar}
    THEN LET child == ChildWalk(ls, i + 1, <<TypeText(ls[i])>>)
         IN  IF child.kind = "completed" THEN ChildrenWalk(ls, child.at, n + 1)
             ELSE [kind |-> child.kind, n |-> n]
    ELSE [kind |-> "completed", n |-> n]

RECURSIVE SkipProperties(_, _)
\* The index of the first line at or after i that is not a property line.
SkipProperties(ls, i) ==
    IF i <= Len(ls) /\ ls[i] \in PropertyLines THEN SkipProperties(ls, i + 1) ELSE i

\* The text opens a calendar and, after its properties, a child component.
OpensChild ==
    /\ inputLines # <<>>
    /\ inputLines[1] = LineBeginCalendar
    /\ SkipProperties(inputLines, 2) <= Len(inputLines)
    /\ inputLines[SkipProperties(inputLines, 2)] \in BeginLines \ {LineBeginCalendar}

Children == ChildrenWalk(inputLines, SkipProperties(inputLines, 2), 0)

\* C7: a child component opened by BEGIN:<TYPE> is completed only by an END
\* line whose value is <TYPE>; an END line with another value is an
\* "unbalanced end" error, the end of the stream before the matching END a
\* "ran out of lines" error, a nested BEGIN:VCALENDAR a structural error, and
\* in each case ParseCalendar returns the error and no calendar.
C7_ChildComponentEnds ==
    (pass = 1 /\ OpensChild) =>
        /\ Len(calendar.Components) <= Children.n
        /\ (cpc = "returned" /\ Children.kind \in
                {"unbalanced end", "ran out of lines",
                 "malformed calendar; vcalendar not where expected"}) =>
               /\ result.nil
               /\ result.err.kind = Children.kind
        /\ (cpc = "returned" /\ result.err = NoError) =>
               Len(result.cal.Components) = Children.n

\* An END:VEVENT met inside a component opened inside a VEVENT was reported
\* as unbalanced.
C7_Witness ==
    /\ FirstPassReturned
    /\ inputLines = <<LineBeginCalendar, LineBeginEvent, LineBeginOther, LineEndEvent>>
    /\ result.nil
    /\ result.err.kind = "unbalanced end"

\* The first line of a text that has one.
FirstLineIsNot(l) == inputLines # <<>> /\ inputLines[1] # l

\* C8 as stated: if the first non-empty content line is not BEGIN:VCALENDAR,
\* ParseCalendar fails with a malformed-calendar error saying that BEGIN or
\* a VCALENDAR was expected, and returns no calendar.
C8_FirstLineNotBeginCalendar ==
    (FirstPassReturned /\ FirstLineIsNot(LineBeginCalendar)) =>
        /\ result.nil
        /\ result.err.kind \in {"malformed calendar; expected begin",
                                "malformed calendar; expected a vcalendar"}

\* C8 amended: if the first non-empty content line is not BEGIN:VCALENDAR,
\* ParseCalendar returns an error and no calendar: "expected a vcalendar"
\* for a BEGIN line with another value, "expected begin" for any other
\* property line, and the error of parsing the line when the line is not a
\* property.
C8_FirstLineErrors ==
    (FirstPassReturned /\ FirstLineIsNot(LineBeginCalendar)) =>
        /\ result.nil
        /\ result.err.kind =
             CASE inputLines[1] \in BeginLines -> "malformed calendar; expected a vcalendar"
               [] inputLines[1] = LineNoColon -> "parsing calendar line"
               [] inputLines[1] = LineNoOperator -> "missing property param operator"
               [] OTHER -> "malformed calendar; expected begin"

\* The text BEGIN:VEVENT, END:VEVENT was refused for lack of a VCALENDAR.
C8_Witness ==
    /\ FirstPassReturned
    /\ inputLines = <<LineBeginEvent, LineEndEvent>>
    /\ result.nil
    /\ result.err.kind = "malformed calendar; expected a vcalendar"

(***************************************************************************)
(* Specification of CalendarStream.ReadLine: a caller reads a stream line  *)
(* by line until ReadLine returns io.EOF.                                  *)
(***************************************************************************)
ReadAlphabet == {97, SP, TAB, LF, CR}

MaxStreamLen == 5

ReadInit ==
    /\ TextIdle
    /\ FoldIdle
    /\ PropIdle
    /\ ParseIdle
    /\ MapIdle
    /\ SinkIdle
    /\ CompIdle
    /\ GroupIdle
    /\ rstream \in SeqsUpTo(ReadAlphabet, MaxStreamLen)
    /\ rcs = 0
    /\ got = <<>>
    /\ rpc = "reading"

\* One call of ReadLine; the caller keeps the line when there is one and
\* stops at io.EOF.
ReadLineCall ==
    /\ rpc = "reading"
    /\ LET rl == ReadLine(rstream, rcs)
       IN  /\ got' = IF rl.nil THEN got ELSE Append(got, rl.line)
           /\ rcs' = rl.pos
           /\ rpc' = IF rl.err = "EOF" THEN "eof" ELSE "reading"
    /\ UNCHANGED rstream
    /\ UNCHANGED textVars
    /\ UNCHANGED foldVars
    /\ UNCHANGED propVars
    /\ UNCHANGED parseVars
    /\ UNCHANGED mapVars
    /\ UNCHANGED sinkVars
    /\ UNCHANGED compVars
    /\ UNCHANGED groupVars

ReadNext == ReadLineCall

SpecRead == ReadInit /\ [][ReadNext]_vars

RECURSIVE Unfolded(_, _, _)
\* The logical lines of the bytes of s from index i (1-based) on, cur being
\* the logical line under way, octet by octet: a LF, or a CR and the LF
\* after it, is a terminator; a terminator before a space or a tab is a
\* fold and goes away with that one byte; any other terminator ends the
\* logical line, and the lines that are not empty are the ones passed on.
Unfolded(s, i, cur) ==
    IF i > Len(s) THEN (IF cur = <<>> THEN <<>> ELSE <<cur>>)
    ELSE LET t == IF s[i] = LF THEN 1
                  ELSE IF s[i] = CR /\ i < Len(s) /\ s[i + 1] = LF THEN 2
                  ELSE 0
         IN  IF t = 0 THEN Unfolded(s, i + 1, Append(cur, s[i]))
             ELSE IF i + t <= Len(s) /\ s[i + t] \in {SP, TAB}
             THEN Unfolded(s, i + t + 1, cur)
             ELSE (IF cur = <<>> THEN <<>> ELSE <<cur>>) \o Unfolded(s, i + t, <<>>)

\* C10: ReadLine takes a line terminator (LF or CRLF) that a space or a tab
\* follows for a fold: the terminator and that one whitespace byte go and
\* the next physical line is joined onto the logical line; a terminator
\* that any other byte, or the end of the stream, follows ends the logical
\* line.
C10_ReadLineUnfolds ==
    /\ Len(got) <= Len(Unfolded(rstream, 1, <<>>))
    /\ got = SubSeq(Unfolded(rstream, 1, <<>>), 1, Len(got))
    /\ rpc = "eof" => got = Unfolded(rstream, 1, <<>>)

\* A CRLF before a tab was read as a fold and the two physical lines came
\* back as one logical line.
C10_Witness ==
    /\ rpc = "eof"
    /\ rstream = <<97, CR, LF, TAB, 97>>
    /\ got = << <<97, 97>> >>

\* C26: successive ReadLine calls return exactly the non-empty unfolded
\* logical lines of the input, each once and in input order (a blank
\* physical line gives no line, a last line without terminator is still
\* returned); after the last of them ReadLine returns no line, with io.EOF.
C26_ReadLineReturnsEachLineOnce ==
    LET lines == Unfolded(rstream, 1, <<>>)
        rl    == ReadLine(rstream, rcs)
    IN  /\ Len(got) <= Len(lines)
        /\ \A i \in 1..Len(got) : got[i] = lines[i] /\ got[i] # <<>>
        /\ IF Len(got) < Len(lines)
           THEN ~rl.nil /\ rl.line = lines[Len(got) + 1]
           ELSE rl.nil /\ rl.err = "EOF"

\* Two lines were read around a blank physical line, the second without a
\* terminator, and the stream has ended.
C26_Witness ==
    /\ rpc = "eof"
    /\ rstream = <<97, LF, LF, 97>>
    /\ got = << <<97>>, <<97>> >>

(***************************************************************************)
(* Specification of ParseProperty on parameter values made of escape       *)
(* sequences: the line A;B=<value>:x, the value quoted or not.             *)
(***************************************************************************)
EscapeAtoms == {<<BSLASH, BSLASH>>, <<BSLASH, LowerN>>, <<BSLASH, UpperN>>,
                <<BSLASH, SEMI>>, <<BSLASH, COMMA>>, <<120>>, <<LowerN>>}

MaxEscapeAtoms == 3

ParamEscapeInit ==
    /\ TextIdle
    /\ FoldIdle
    /\ ParseIdle
    /\ ReadIdle
    /\ MapIdle
    /\ SinkIdle
    /\ CompIdle
    /\ GroupIdle
    /\ \E atoms \in SeqsUpTo(EscapeAtoms, MaxEscapeAtoms) :
       \E q \in {<<>>, <<DQUOTE>>} :
           inputLine = <<65, SEMI, 66, EQ>> \o q \o Concat(atoms) \o q \o <<COLON, 120>>
    /\ parsed = [nil |-> TRUE, prop |-> NilProperty, err |-> NoError]
    /\ ppc = "start"

SpecParamEscape == ParamEscapeInit /\ [][PropNext]_vars

\* The text of the parameter value of the line A;B=<value>:x, its quotes
\* taken off.
RawParamValue ==
    LET v == SubSeq(inputLine, 5, Len(inputLine) - 2)
    IN  IF v # <<>> /\ v[1] = DQUOTE THEN SubSeq(v, 2, Len(v) - 1) ELSE v

RECURSIVE DecodedEscapes(_, _)
\* v from index i on, each escape sequence replaced by what it stands for:
\* a backslash for \\, a newline for \n and \N, ';' for \; and ',' for \,.
DecodedEscapes(v, i) ==
    IF i > Len(v) THEN <<>>
    ELSE IF v[i] = BSLASH /\ i < Len(v)
    THEN <<(IF v[i + 1] \in {LowerN, UpperN} THEN LF ELSE v[i + 1])>>
         \o DecodedEscapes(v, i + 2)
    ELSE <<v[i]>> \o DecodedEscapes(v, i + 1)

\* C11: inside a parameter value, quoted or not, the escape sequences \\,
\* \n or \N, \; and \, are decoded to a backslash, a newline, ';' and ','.
C11_ParamEscapesDecoded ==
    ppc = "parsed" =>
        /\ ~parsed.nil
        /\ parsed.err = NoError
        /\ parsed.prop.ICalParameters[<<66>>] = <<DecodedEscapes(RawParamValue, 1)>>

(***************************************************************************)
(* Specification of the value type of a property: the line                 *)
(* <name>[;VALUE=...]:<value> is parsed and the property is serialized     *)
(* with the default options.                                               *)
(***************************************************************************)
NameOther == <<83>>    \* S

ParamNone == <<>>
ParamValueText == <<59, 86, 65, 76, 85, 69, 61, 84, 69, 88, 84>>    \* ;VALUE=TEXT
ParamValueUri == <<59, 86, 65, 76, 85, 69, 61, 85, 82, 73>>    \* ;VALUE=URI
ParamValueTwo == <<59, 86, 65, 76, 85, 69, 61, 85, 82, 73, 44, 82, 69, 67, 85, 82>>    \* ;VALUE=URI,RECUR

\* The beginnings of the lines, up to the colon, and the value type that an
\* explicit VALUE parameter names (<<>> when the line has none).
LineHeads ==
    {[name |-> n, param |-> q] :
        n \in {NameOther, PropertyRrule, PropertyUrl},
        q \in {ParamNone, ParamValueText, ParamValueUri, ParamValueTwo}}

HeadText(h) == h.name \o h.param \o <<COLON>>

RawValueAlphabet == {BSLASH, COMMA, SEMI, LowerN, 120}

MaxRawValueLen == 3

ValueTypeInit ==
    /\ TextIdle
    /\ FoldIdle
    /\ ParseIdle
    /\ ReadIdle
    /\ MapIdle
    /\ SinkIdle
    /\ CompIdle
    /\ GroupIdle
    /\ \E h \in LineHeads :
       \E raw \in SeqsUpTo(RawValueAlphabet, MaxRawValueLen) :
           inputLine = HeadText(h) \o raw
    /\ parsed = [nil |-> TRUE, prop |-> NilProperty, err |-> NoError]
    /\ ppc = "start"

\* The caller serializes the property that ParseProperty returned.
SerializeParsed ==
    /\ ppc = "parsed"
    /\ ~parsed.nil
    /\ w' = serializeProperty(parsed.prop, defaultSerializationOptions)
    /\ ppc' = "serialized"
    /\ UNCHANGED <<inputLine, parsed>>
    /\ UNCHANGED <<bp, serialConfig, r, nwrites, spc, unfolded>>
    /\ UNCHANGED textVars
    /\ UNCHANGED parseVars
    /\ UNCHANGED readVars
    /\ UNCHANGED mapVars
    /\ UNCHANGED sinkVars
    /\ UNCHANGED compVars
    /\ UNCHANGED groupVars

ValueTypeNext == ParseLine \/ SerializeParsed

SpecValueType == ValueTypeInit /\ [][ValueTypeNext]_vars

\* The built-in default type of the names the lines use.
DefaultTypeOf(name) ==
    CASE name = PropertyRrule -> ValueDataTypeRecur
      [] name = PropertyUrl -> ValueDataTypeUri
      [] OTHER -> ValueDataTypeText

\* The text after "VALUE=" of a VALUE parameter.
ParamText(q) == SubSeq(q, 8, Len(q))

\* The line begins with head h and the value after the colon is stored and
\* written as a value of type TEXT when isText, as it is when not.
TreatedAs(h, isText) ==
    LET raw == After(inputLine, HeadText(h))
    IN  /\ ppc \in {"parsed", "serialized"} =>
            /\ ~parsed.nil
            /\ parsed.err = NoError
            /\ parsed.prop.Value = IF isText THEN FromText(raw) ELSE raw
        /\ ppc = "serialized" =>
            w = HeadText(h)
                \o (IF isText THEN ToText(parsed.prop.Value) ELSE parsed.prop.Value)
                \o <<LF>>

\* C12 as stated: the value is unescaped on parsing and escaped on
\* serializing exactly when the effective type is TEXT, the effective type
\* being the value of the VALUE parameter if there is one and the default of
\* the property name otherwise; a value of any other type is stored and
\* written unchanged.
C12_TextExactlyWhenTypeText ==
    \A h \in LineHeads :
        HasPrefix(inputLine, HeadText(h)) =>
            TreatedAs(h, IF h.param = ParamNone THEN DefaultTypeOf(h.name) = ValueDataTypeText
                         ELSE ParamText(h.param) = ValueDataTypeText)

\* C12 amended: the effective type is the value of the VALUE parameter when
\* that parameter has exactly one value, and the default of the property
\* name otherwise.
C12_TextExactlyWhenSingleValueText ==
    \A h \in LineHeads :
        HasPrefix(inputLine, HeadText(h)) =>
            TreatedAs(h, IF h.param \in {ParamValueText, ParamValueUri}
                         THEN ParamText(h.param) = ValueDataTypeText
                         ELSE DefaultTypeOf(h.name) = ValueDataTypeText)

\* RRULE;VALUE=TEXT:\,x was stored as ,x and written back with the comma
\* escaped, and so treated as TEXT against the default of RRULE.
C12_Witness ==
    /\ ppc = "serialized"
    /\ inputLine = PropertyRrule \o ParamValueText \o <<COLON, BSLASH, COMMA, 120>>
    /\ parsed.prop.Value = <<COMMA, 120>>
    /\ w = inputLine \o <<LF>>

(***************************************************************************)
(* Specification of ParseCalendar on well-formed texts: a calendar with    *)
(* properties and, or not, one VEVENT with properties; the calendar parsed *)
(* is serialized and the output parsed again, as above.                    *)
(***************************************************************************)
LineCustomField == <<88, 45, 67, 85, 83, 84, 79, 77, 45, 70, 73, 69, 76, 68, 58, 116, 101, 115, 116>>    \* X-CUSTOM-FIELD:test
LineBareComma == <<84, 58, 97, 44, 98>>    \* T:a,b
LineUrl == <<85, 82, 76, 58, 117>>    \* URL:u

PropertyPool == {LineCustomField, LineProperty, LineBareComma, LineUrl}

MaxProperties == 2

WellFormedInit ==
    /\ TextIdle
    /\ FoldIdle
    /\ PropIdle
    /\ ReadIdle
    /\ MapIdle
    /\ SinkIdle
    /\ CompIdle
    /\ GroupIdle
    /\ \E cps \in SeqsUpTo(PropertyPool, MaxProperties) :
       \E eps \in SeqsUpTo(PropertyPool, MaxProperties) :
       \E event \in BOOLEAN :
           inputLines = <<LineBeginCalendar>> \o cps
                        \o (IF event THEN <<LineBeginEvent>> \o eps \o <<LineEndEvent>>
                            ELSE <<>>)
                        \o <<LineEndCalendar>>
    /\ \E trailing \in BOOLEAN : stream = JoinLines(inputLines, 1, trailing)
    /\ cs = 0
    /\ state = "begin"
    /\ calendar = NilCalendar
    /\ loopCont = TRUE
    /\ result = Returned(TRUE, NilCalendar, NoError)
    /\ pass = 1
    /\ first = Returned(TRUE, NilCalendar, NoError)
    /\ cpc = "loop"

SpecWellFormed == WellFormedInit /\ [][ParseNext]_vars

\* The name, parameters and value that each line of the pool states.
PropertyOfLine(l) ==
    CASE l = LineCustomField ->
           [IANAToken |-> SubSeq(l, 1, 14), ICalParameters |-> NoParams,
            Value |-> SubSeq(l, 16, 19)]
      [] l = LineProperty ->
           [IANAToken |-> <<83>>,
            ICalParameters |-> [k \in {<<80>>} |-> << <<97, SEMI, 98>> >>],
            Value |-> <<120, COMMA, 121>>]
      [] l = LineBareComma ->
           [IANAToken |-> <<84>>, ICalParameters |-> NoParams, Value |-> <<97, COMMA, 98>>]
      [] l = LineUrl ->
           [IANAToken |-> PropertyUrl, ICalParameters |-> NoParams, Value |-> <<117>>]

\* The index of the BEGIN:VEVENT line of the text, 0 when it has none.
EventAt ==
    IF \E i \in 1..Len(inputLines) : inputLines[i] = LineBeginEvent
    THEN CHOOSE i \in 1..Len(inputLines) : inputLines[i] = LineBeginEvent
    ELSE 0

\* The property lines of the calendar, of the VEVENT.
CalendarPropertyLines ==
    SubSeq(inputLines, 2, IF EventAt = 0 THEN Len(inputLines) - 1 ELSE EventAt - 1)
EventPropertyLines ==
    IF EventAt = 0 THEN <<>> ELSE SubSeq(inputLines, EventAt + 1, Len(inputLines) - 2)

PropertiesOfLines(ls) == [i \in 1..Len(ls) |-> PropertyOfLine(ls[i])]

\* The parser has kept every property line of the text, with its name, its
\* parameters and its value, at its place in the calendar or in the VEVENT.
EveryPropertyKept ==
    /\ ~result.nil
    /\ result.err = NoError
    /\ result.cal.CalendarProperties = PropertiesOfLines(CalendarPropertyLines)
    /\ Len(result.cal.Components) = IF EventAt = 0 THEN 0 ELSE 1
    /\ EventAt # 0 =>
           /\ result.cal.Components[1].variant = "VEvent"
           /\ result.cal.Components[1].Properties = PropertiesOfLines(EventPropertyLines)
           /\ result.cal.Components[1].Components = <<>>

\* C13 as stated: a property of a name the library does not know, in the
\* calendar or in a component, is not dropped and not rejected: it is kept
\* with its name, parameters and value at its place among the other
\* properties, and serializing writes exactly its line again.
C13_UnknownPropertyKeptExactLine ==
    /\ FirstPassReturned => EveryPropertyKept
    /\ pass = 2 => stream = JoinLines(inputLines, 1, TRUE)

\* The line that the serializer writes for each line of the pool: a comma
\* of a TEXT value is written with a backslash before it.
WrittenLine(l) == IF l = LineBareComma THEN <<84, COLON, 97, BSLASH, COMMA, 98>> ELSE l

\* C13 amended: the property is kept with its name, parameters and value at
\* its place, and serializing writes it in the form of the serializer, which
\* is its exact line when the line has no parameters and its value holds no
\* backslash, comma or semicolon.
C13_UnknownPropertyKept ==
    /\ FirstPassReturned => EveryPropertyKept
    /\ pass = 2 =>
           stream = JoinLines([i \in 1..Len(inputLines) |-> WrittenLine(inputLines[i])],
                              1, TRUE)

\* X-CUSTOM-FIELD:test was read in the calendar and in the VEVENT, after and
\* before another property, and written again at both places.
C13_Witness ==
    /\ pass = 2
    /\ inputLines = <<LineBeginCalendar, LineUrl, LineCustomField, LineBeginEvent,
                      LineCustomField, LineProperty, LineEndEvent, LineEndCalendar>>
    /\ first.cal.CalendarProperties[2].IANAToken = SubSeq(LineCustomField, 1, 14)
    /\ first.cal.Components[1].Properties[1].Value = <<116, 101, 115, 116>>
    /\ stream = JoinLines(inputLines, 1, TRUE)

(***************************************************************************)
(* Specification of BaseProperty.serialize on a property with parameters:  *)
(* range yields the keys of the map ICalParameters in an order that Go     *)
(* does not fix; iter is that order.                                       *)
(***************************************************************************)
RECURSIVE insertString(_, _)
\* k at its place in the ascending sequence sorted.
insertString(sorted, k) ==
    IF sorted = <<>> THEN <<k>>
    ELSE IF StrLess(k, Head(sorted)) THEN <<k>> \o sorted
    ELSE <<Head(sorted)>> \o insertString(Tail(sorted), k)

\* A mutant of sortStrings: the keys stay in the order of the iteration.
sortStringsNot(keys) == keys

RECURSIVE sortStrings(_)
\* sort.Strings(keys): the keys in ascending order.
sortStrings(keys) ==
    IF keys = <<>> THEN <<>>
    ELSE insertString(sortStrings(SubSeq(keys, 1, Len(keys) - 1)), keys[Len(keys)])

\* The line that serialize assembles in its buffer when range yields the
\* keys in the order given.
PropertyLineRanged(p, order) ==
    p.IANAToken
    \o JoinParams(p, sortStrings(order), 1)
    \o <<COLON>>
    \o (IF GetValueType(p) = ValueDataTypeText THEN ToText(p.Value) ELSE p.Value)

ParamKeys == {<<65>>, <<66>>, <<65, 66>>, <<97>>}
ParamValues == {<<120>>, <<121, COMMA>>}
MaxParams == 3

\* The orders in which range can yield the keys S.
Orders(S) ==
    {o \in [1..Cardinality(S) -> S] : \A i, j \in 1..Cardinality(S) : o[i] = o[j] => i = j}

MapInit ==
    /\ TextIdle
    /\ PropIdle
    /\ ParseIdle
    /\ ReadIdle
    /\ SinkIdle
    /\ CompIdle
    /\ GroupIdle
    /\ \E S \in {T \in SUBSET ParamKeys : Cardinality(T) <= MaxParams} :
           /\ \E ps \in [S -> ParamValues] :
                  bp = [IANAToken |-> <<83>>,
                        ICalParameters |-> [k \in S |-> <<ps[k]>>],
                        Value |-> <<118>>]
           /\ iter \in Orders(S)
    /\ serialConfig = defaultSerializationOptions
    /\ r = <<>>
    /\ w = <<>>
    /\ nwrites = 0
    /\ spc = "start"
    /\ unfolded = ReadLineResult(<<>>, "EOF", 0)

\* BaseProperty.serialize into a buffer that never fails.
SerializeRanged ==
    /\ spc = "start"
    /\ iter \in Orders(DOMAIN bp.ICalParameters)
    /\ LET line == PropertyLineRanged(bp, iter)
       IN  IF Len(line) > serialConfig.MaxLength
           THEN LET l == trimUT8StringUpTo(serialConfig.MaxLength, line)
                IN  w' = l \o serialConfig.NewLine
                         \o foldRest(Slice(line, Len(l), Len(line)), serialConfig)
           ELSE w' = line \o serialConfig.NewLine
    /\ spc' = "done"
    /\ UNCHANGED <<bp, serialConfig, r, nwrites, unfolded>>
    /\ UNCHANGED textVars
    /\ UNCHANGED propVars
    /\ UNCHANGED parseVars
    /\ UNCHANGED readVars
    /\ UNCHANGED mapVars
    /\ UNCHANGED sinkVars
    /\ UNCHANGED compVars
    /\ UNCHANGED groupVars

MapNext == SerializeRanged

SpecMap == MapInit /\ [][MapNext]_vars

\* The keys ks stand in ascending order.
Ascending(ks) == \A i, j \in 1..Len(ks) : i < j => StrLess(ks[i], ks[j])

\* C15: the parameters are written in ascending order of their keys, so
\* the octets written are fixed by the name, the value and the parameter
\* map, whatever the order in which the map yields its keys.
C15_ParamsInKeyOrder ==
    spc = "done" =>
        \E ks \in Orders(DOMAIN bp.ICalParameters) :
            /\ Ascending(ks)
            /\ w = bp.IANAToken \o JoinParams(bp, ks, 1) \o <<COLON>> \o bp.Value
                   \o serialConfig.NewLine

\* The map yielded B before A and A was written before B.
C15_Witness ==
    /\ spc = "done"
    /\ iter = << <<66>>, <<65>> >>
    /\ w = <<83, SEMI, 65, EQ, 120, SEMI, 66, EQ, 120, COLON, 118, LF>>

(***************************************************************************)
(* Specification of Calendar.SerializeTo on a writer that fails.           *)
(***************************************************************************)
PropertyShort == [IANAToken |-> <<83>>, ICalParameters |-> NoParams, Value |-> <<120>>]
PropertyLong ==
    [IANAToken |-> <<84>>, ICalParameters |-> NoParams,
     Value |-> <<97, 98, 99, 100, 101, 102, 103, 104>>]

MaxFailAt == 6
MaxSinkProperties == 2
ShortLength == 4

Alarm == [variant |-> "VAlarm", Token |-> <<>>, Properties |-> <<>>, Components |-> <<>>]

SinkInit ==
    /\ TextIdle
    /\ FoldIdle
    /\ PropIdle
    /\ ParseIdle
    /\ ReadIdle
    /\ MapIdle
    /\ CompIdle
    /\ GroupIdle
    /\ \E cps \in SeqsUpTo({PropertyShort}, 1) :
       \E eps \in SeqsUpTo({PropertyShort, PropertyLong}, MaxSinkProperties) :
       \E alarms \in SeqsUpTo({Alarm}, 1) :
       \E events \in 0..1 :
           scal = [CalendarProperties |-> cps,
                   Components |-> [i \in 1..events |->
                                      [variant |-> "VEvent", Token |-> <<>>,
                                       Properties |-> eps, Components |-> alarms]]]
    /\ \E l \in {ShortLength, 75} :
           sinkConfig = [defaultSerializationOptions EXCEPT !.MaxLength = l]
    /\ \E failAt \in 0..MaxFailAt : \E sticky \in BOOLEAN : sink = NewSink(failAt, sticky)
    /\ serr = NilError
    /\ kpc = "start"

\* A call of Calendar.SerializeTo.
SerializeToCall ==
    /\ kpc = "start"
    /\ sink' = CalendarSerializeTo(scal, sink, sinkConfig).sink
    /\ serr' = CalendarSerializeTo(scal, sink, sinkConfig).err
    /\ kpc' = "returned"
    /\ UNCHANGED <<scal, sinkConfig>>
    /\ UNCHANGED textVars
    /\ UNCHANGED foldVars
    /\ UNCHANGED propVars
    /\ UNCHANGED parseVars
    /\ UNCHANGED readVars
    /\ UNCHANGED mapVars
    /\ UNCHANGED compVars
    /\ UNCHANGED groupVars

SinkNext == SerializeToCall

SpecSink == SinkInit /\ [][SinkNext]_vars

\* The calls of Write that failed.
FailedWrites == {i \in 1..Len(sink.log) : ~sink.log[i].ok}

\* The first of them.
FirstFailed == CHOOSE i \in FailedWrites : \A j \in FailedWrites : i <= j

\* C16: when a write fails during Calendar.SerializeTo, the write of a
\* BEGIN or END line included, no further write is attempted and the error
\* returned is not nil and wraps the error of the writer; it names the
\* property when the write was one of a property.
C16_WriteFailureStops ==
    (kpc = "returned" /\ FailedWrites # {}) =>
        /\ sink.n = FirstFailed
        /\ ~serr.nil
        /\ serr.wrapsIO
        /\ sink.log[FirstFailed].property # <<>> =>
               serr.property = sink.log[FirstFailed].property

(***************************************************************************)
(* Specification of ParseCalendar on arbitrary octets: the stream is the   *)
(* start of a calendar, or of a calendar and a VEVENT, or nothing,         *)
(* followed by the start of a property with a parameter, or nothing, and   *)
(* every short string over the octets that the readers distinguish.        *)
(***************************************************************************)
FuzzAlphabet == {65, SEMI, EQ, DQUOTE, BSLASH, COLON, COMMA, LF, CR, SP}
MaxFuzzLen == 3

\* "A;B", "A;B=", "A;B=" and a double quote.
FuzzHeads == {<<>>, <<65, SEMI, 66>>, <<65, SEMI, 66, EQ>>, <<65, SEMI, 66, EQ, DQUOTE>>}

FuzzInit ==
    /\ TextIdle
    /\ FoldIdle
    /\ PropIdle
    /\ ReadIdle
    /\ MapIdle
    /\ SinkIdle
    /\ CompIdle
    /\ GroupIdle
    /\ \E pre \in {<<>>, <<LineBeginCalendar>>, <<LineBeginCalendar, LineBeginEvent>>} :
       \E head \in FuzzHeads :
       \E suf \in SeqsUpTo(FuzzAlphabet, MaxFuzzLen) :
           inputLines = pre \o <<head \o suf>>
    /\ \E trailing \in BOOLEAN : stream = JoinLines(inputLines, 1, trailing)
    /\ cs = 0
    /\ state = "begin"
    /\ calendar = NilCalendar
    /\ loopCont = TRUE
    /\ result = Returned(TRUE, NilCalendar, NoError)
    /\ pass = 1
    /\ first = Returned(TRUE, NilCalendar, NoError)
    /\ cpc = "loop"

SpecFuzz == FuzzInit /\ [][ParseNext]_vars

\* The last line of the text: the octets that follow the start of a
\* calendar, when the text has one.
LastLine == inputLines[Len(inputLines)]

\* The last line is one content line of its own (it has no line feed and no
\* carriage return and does not continue the line before it) that has an
\* octet which is not of a name before its name or that has no name at all.
NameNotAtStart ==
    /\ LastLine # <<>>
    /\ \A i \in 1..Len(LastLine) : LastLine[i] \notin {LF, CR}
    /\ LastLine[1] # SP
    /\ ~IsTokenChar(LastLine[1])

\* C25: a content line is a property only if its name (letters, digits,
\* hyphen) starts at its first octet; a line with another octet before the
\* name, like a line with no name at all, yields no property and makes
\* ParseCalendar return an error: it is not parsed with the octets before
\* the name dropped.
C25_NameStartsLine ==
    (FirstPassReturned /\ NameNotAtStart) =>
        /\ result.nil
        /\ result.err # NoError

PropertyNames == {<<88>>, <<89>>}            \* "X", "Y"
ArgumentNames == PropertyNames \cup {<<90>>}    \* and "Z"
PropertyValues == {<<49>>, <<50>>}           \* "1", "2"
ParameterKey == <<75>>                         \* "K"
ParameterLists ==
    {<<>>,
     <<[Key |-> ParameterKey, Value |-> << <<97>> >>]>>,
     <<[Key |-> ParameterKey, Value |-> << <<97>> >>],
       [Key |-> ParameterKey, Value |-> << <<98>> >>]>>}
Predicates ==
    {[kind |-> "value", value |-> v] : v \in PropertyValues}
    \cup {[kind |-> "hasParameters", value |-> <<>>],
          [kind |-> "always", value |-> <<>>],
          [kind |-> "never", value |-> <<>>]}

MaxListLen == 3

ListPool ==
    {[IANAToken |-> n, Value |-> v, ICalParameters |-> m] :
        n \in PropertyNames, v \in PropertyValues,
        m \in {NoParams, [k \in {ParameterKey} |-> << <<99>> >>]}}

CompInit ==
    /\ TextIdle
    /\ FoldIdle
    /\ PropIdle
    /\ ParseIdle
    /\ ReadIdle
    /\ MapIdle
    /\ SinkIdle
    /\ GroupIdle
    /\ plist \in SeqsUpTo(ListPool, MaxListLen)
    /\ before = plist
    /\ call = NoCall
    /\ removed = <<>>
    /\ opc = "start"

\* What every call leaves alone.
CallFrame ==
    /\ opc' = "done"
    /\ before' = plist
    /\ UNCHANGED textVars
    /\ UNCHANGED foldVars
    /\ UNCHANGED propVars
    /\ UNCHANGED parseVars
    /\ UNCHANGED readVars
    /\ UNCHANGED mapVars
    /\ UNCHANGED sinkVars
    /\ UNCHANGED groupVars

CallSetProperty ==
    /\ opc = "start"
    /\ \E n \in ArgumentNames : \E v \in PropertyValues : \E ps \in ParameterLists :
           /\ call' = [name |-> "SetProperty", property |-> n, value |-> v, params |-> ps]
           /\ plist' = SetProperty(plist, n, v, ps)
    /\ UNCHANGED removed
    /\ CallFrame

CallCalendarSetProperty ==
    /\ opc = "start"
    /\ \E n \in ArgumentNames : \E v \in PropertyValues : \E ps \in ParameterLists :
           /\ call' = [name |-> "setProperty", property |-> n, value |-> v, params |-> ps]
           /\ plist' = CalendarSetProperty(plist, n, v, ps)
    /\ UNCHANGED removed
    /\ CallFrame

CallRemoveProperty ==
    /\ opc = "start"
    /\ \E n \in ArgumentNames :
           /\ call' = [name |-> "RemoveProperty", property |-> n]
           /\ plist' = RemoveProperty(plist, n).kept
           /\ removed' = RemoveProperty(plist, n).removed
    /\ CallFrame

CallRemovePropertyByValue ==
    /\ opc = "start"
    /\ \E n \in ArgumentNames : \E v \in PropertyValues :
           /\ call' = [name |-> "RemovePropertyByValue", property |-> n,
                       remove |-> [kind |-> "value", value |-> v]]
           /\ plist' = RemovePropertyByValue(plist, n, v).kept
           /\ removed' = RemovePropertyByValue(plist, n, v).removed
    /\ CallFrame

CallRemovePropertyByFunc ==
    /\ opc = "start"
    /\ \E n \in ArgumentNames : \E f \in Predicates :
           /\ call' = [name |-> "RemovePropertyByFunc", property |-> n, remove |-> f]
           /\ plist' = RemovePropertyByFunc(plist, n, f).kept
           /\ removed' = RemovePropertyByFunc(plist, n, f).removed
    /\ CallFrame

CompNext ==
    \/ CallSetProperty
    \/ CallCalendarSetProperty
    \/ CallRemoveProperty
    \/ CallRemovePropertyByValue
    \/ CallRemovePropertyByFunc

SpecComp == CompInit /\ [][CompNext]_vars

\* The property p has the name of the call and the predicate of the call
\* is true of it.
Selected(p) ==
    /\ p.IANAToken = call.property
    /\ \/ call.remove.kind = "value" /\ p.Value = call.remove.value
       \/ call.remove.kind = "hasParameters" /\ p.ICalParameters # <<>>
       \/ call.remove.kind = "always"
NotSelected(p) == ~Selected(p)

\* C18: RemovePropertyByFunc(name, pred), and RemovePropertyByValue(name,
\* v) with the predicate "the value is v", remove exactly the properties
\* of that name the predicate is true of and return exactly those; every
\* other property stays, in its order.
C18_RemoveByFuncRemovesSelected ==
    (opc = "done" /\ call.name \in {"RemovePropertyByFunc", "RemovePropertyByValue"}) =>
        /\ removed = SelectSeq(before, Selected)
        /\ plist = SelectSeq(before, NotSelected)

Named(p) == p.IANAToken = call.property
NotNamed(p) == ~Named(p)

\* C19: RemoveProperty(name) removes every property of that name and
\* returns exactly the removed ones, in their order; the other properties
\* stay unmodified, in their order.
C19_RemovePropertyRemovesNamed ==
    (opc = "done" /\ call.name = "RemoveProperty") =>
        /\ removed = SelectSeq(before, Named)
        /\ plist = SelectSeq(before, NotNamed)

\* Two properties X around a property Y were removed and returned, Y stays.
C19_Witness ==
    /\ opc = "done"
    /\ call.name = "RemoveProperty"
    /\ call.property = <<88>>
    /\ Len(before) = 3
    /\ before[2].IANAToken = <<89>>
    /\ removed = <<before[1], before[3]>>
    /\ removed[1] # removed[2]
    /\ plist = <<before[2]>>

\* The parameter map that a list of parameters stands for: each key has the
\* value of its last entry.
ParamsOf(ps) ==
    [k \in {ps[i].Key : i \in 1..Len(ps)} |->
        ps[CHOOSE i \in 1..Len(ps) :
               ps[i].Key = k /\ \A j \in (i + 1)..Len(ps) : ps[j].Key # k].Value]

\* The indices of the properties of the name of the call, before the call.
NamedAt == {i \in 1..Len(before) : before[i].IANAToken = call.property}

\* C20: SetProperty(name, value, params), and Calendar.setProperty, change
\* only the first property of that name: its value is set and its whole
\* parameter map is replaced by params; all other properties, their order
\* and their number stay.  When no property has the name, exactly one is
\* appended.
C20_SetPropertySetsFirst ==
    (opc = "done" /\ call.name \in {"SetProperty", "setProperty"}) =>
        LET set == [IANAToken |-> call.property, Value |-> call.value,
                    ICalParameters |-> ParamsOf(call.params)]
        IN  IF NamedAt = {}
            THEN plist = before \o <<set>>
            ELSE /\ Len(plist) = Len(before)
                 /\ \A i \in 1..Len(before) :
                        plist[i] = IF \A j \in NamedAt : i <= j /\ i \in NamedAt
                                   THEN set ELSE before[i]

\* SetProperty("X", ...) on Y, X, X with parameters: the first X has the new
\* value and the parameters given, the second X is as it was.
C20_Witness ==
    /\ opc = "done"
    /\ call.name = "SetProperty"
    /\ call.property = <<88>>
    /\ Len(call.params) = 2
    /\ Len(before) = 3
    /\ before[1].IANAToken = <<89>>
    /\ before[2].IANAToken = <<88>> /\ before[2].ICalParameters # <<>>
    /\ before[2].Value # call.value
    /\ before[3].IANAToken = <<88>> /\ before[3].Value # call.value
    /\ plist[2].Value = call.value
    /\ plist[2].ICalParameters = [k \in {ParameterKey} |-> << <<98>> >>]
    /\ plist[3] = before[3]

(***************************************************************************)
(* Specification of ParseCalendar on a calendar that holds one child       *)
(* component of each type, with or without a component nested in it; the   *)
(* calendar parsed is serialized and the output parsed again, as above.    *)
(***************************************************************************)
KnownTypes == {ComponentVEvent, ComponentVTodo, ComponentVJournal, ComponentVFreeBusy,
               ComponentVTimezone, ComponentVAlarm, ComponentStandard, ComponentDaylight}

\* "X-A", "vevent" and the octets Z\\, of LineBeginOther.
OtherTypes == {<<88, 45, 65>>, <<118, 101, 118, 101, 110, 116>>, <<90, BSLASH, BSLASH, COMMA>>}

MaxNested == 1

BeginLine(T) == TokenBegin \o <<COLON>> \o T
EndLine(T) == TokenEnd_ \o <<COLON>> \o T

TypesInit ==
    /\ TextIdle
    /\ FoldIdle
    /\ PropIdle
    /\ ReadIdle
    /\ MapIdle
    /\ SinkIdle
    /\ CompIdle
    /\ GroupIdle
    /\ \E T \in KnownTypes \cup OtherTypes :
       \E nested \in SeqsUpTo(KnownTypes \cup OtherTypes, MaxNested) :
           inputLines = <<LineBeginCalendar, BeginLine(T)>>
                        \o [i \in 1..(2 * Len(nested)) |->
                               IF i <= Len(nested) THEN BeginLine(nested[i])
                               ELSE EndLine(nested[2 * Len(nested) + 1 - i])]
                        \o <<EndLine(T), LineEndCalendar>>
    /\ \E trailing \in BOOLEAN : stream = JoinLines(inputLines, 1, trailing)
    /\ cs = 0
    /\ state = "begin"
    /\ calendar = NilCalendar
    /\ loopCont = TRUE
    /\ result = Returned(TRUE, NilCalendar, NoError)
    /\ pass = 1
    /\ first = Returned(TRUE, NilCalendar, NoError)
    /\ cpc = "loop"

SpecTypes == TypesInit /\ [][ParseNext]_vars

\* The variant that stands for the type T, and the token it carries.
VariantFor(T) ==
    CASE T = <<86, 69, 86, 69, 78, 84>> -> "VEvent"
      [] T = <<86, 84, 79, 68, 79>> -> "VTodo"
      [] T = <<86, 74, 79, 85, 82, 78, 65, 76>> -> "VJournal"
      [] T = <<86, 70, 82, 69, 69, 66, 85, 83, 89>> -> "VBusy"
      [] T = <<86, 84, 73, 77, 69, 90, 79, 78, 69>> -> "VTimezone"
      [] T = <<86, 65, 76, 65, 82, 77>> -> "VAlarm"
      [] T = <<83, 84, 65, 78, 68, 65, 82, 68>> -> "Standard"
      [] T = <<68, 65, 89, 76, 73, 71, 72, 84>> -> "Daylight"
      [] OTHER -> "GeneralComponent"

\* The component co stands for the type T.
StandsFor(co, T) ==
    /\ co.variant = VariantFor(T)
    /\ co.variant = "GeneralComponent" => co.Token = T

\* The type that the BEGIN line i of the text opens.
TypeAt(i) == SubSeq(inputLines[i], 7, Len(inputLines[i]))

\* C21: a child opened by BEGIN:<T> becomes the variant of T when T is one
\* of the eight types of the library and a generic component that carries
\* the token T otherwise, and it is serialized as BEGIN:<T> ... END:<T>
\* with that same T.
C21_TypeTokenPreserved ==
    /\ FirstPassReturned =>
           /\ ~result.nil
           /\ result.err = NoError
           /\ Len(result.cal.Components) = 1
           /\ StandsFor(result.cal.Components[1], TypeAt(2))
           /\ Len(inputLines) = 6 =>
                  /\ Len(result.cal.Components[1].Components) = 1
                  /\ StandsFor(result.cal.Components[1].Components[1], TypeAt(3))
    /\ pass = 2 => stream = JoinLines(inputLines, 1, TRUE)

(***************************************************************************)
(* Specification of ParseCalendar on a reader that can fail: at any call   *)
(* of ReadLine the reader can return an error that is not io.EOF, which    *)
(* ReadLine returns with no line.                                          *)
(***************************************************************************)
ReaderError == Error("reader error", <<>>, <<>>)

\* ReadLine, called by the loop of ParseCalendar, returns the error of the
\* reader: the calendar built so far is returned with it.
ParseCalendarReadFails ==
    /\ cpc = "loop"
    /\ loopCont
    /\ pass = 1
    /\ result' = Returned(FALSE, calendar, ReaderError)
    /\ cpc' = "returned"
    /\ UNCHANGED <<inputLines, stream, cs, state, calendar, loopCont, pass, first>>
    /\ UNCHANGED textVars
    /\ UNCHANGED foldVars
    /\ UNCHANGED propVars
    /\ UNCHANGED readVars
    /\ UNCHANGED mapVars
    /\ UNCHANGED sinkVars
    /\ UNCHANGED compVars
    /\ UNCHANGED groupVars

\* The line is a BEGIN line that makes ParseCalendar parse a component.
OpensComponent(line) ==
    /\ ~line.nil
    /\ line.err = NoError
    /\ line.prop.IANAToken = TokenBegin
    /\ line.prop.Value # ComponentVCalendar

\* ReadLine, called by the loop of ParseComponent, returns the error of the
\* reader: ParseComponent and GeneralParseComponent return it, and
\* ParseCalendar returns it with no calendar.
ParseComponentReadFails ==
    /\ cpc = "loop"
    /\ loopCont
    /\ pass = 1
    /\ state \in {"properties", "components"}
    /\ OpensComponent(ParseProperty(ReadLine(stream, cs).line))
    /\ ReturnError(ReaderError)
    /\ cs' = ReadLine(stream, cs).pos
    /\ UNCHANGED <<inputLines, stream, loopCont, pass, first>>
    /\ UNCHANGED textVars
    /\ UNCHANGED foldVars
    /\ UNCHANGED propVars
    /\ UNCHANGED readVars
    /\ UNCHANGED mapVars
    /\ UNCHANGED sinkVars
    /\ UNCHANGED compVars
    /\ UNCHANGED groupVars

FailingNext ==
    \/ ParseCalendarStep
    \/ ParseCalendarReturn
    \/ ParseCalendarReadFails
    \/ ParseComponentReadFails

SpecFailing == ParseInit /\ [][FailingNext]_vars

\* C22: an error that ParseCalendar returns for a violation of the grammar
\* or of the structure comes with a nil Calendar; a Calendar that is not
\* nil, built in part, comes with an error only when the reader has failed
\* with an error that is not the end of the stream.
C22_NilCalendarWithError ==
    (cpc = "returned" /\ result.err # NoError) =>
        /\ result.err # ReaderError => result.nil
        /\ ~result.nil => (result.err = ReaderError /\ result.cal = calendar)

\* The reader failed after BEGIN:VCALENDAR and a property had been read:
\* the calendar with that property is returned with the error.
C22_Witness ==
    /\ cpc = "returned"
    /\ result.err = ReaderError
    /\ ~result.nil
    /\ Len(result.cal.CalendarProperties) = 1
    /\ cs < Len(stream)

(***************************************************************************)
(* Specification of ParseProperty on parameter groups: the line is the     *)
(* name A, then parameter values written one after the other, each either  *)
(* joined by a comma to the group before it or opening a group NAME=, then *)
(* the value :x.  A value is a run of atoms, written between double quotes *)
(* or not.                                                                 *)
(***************************************************************************)
GroupNames == {<<66>>, <<67>>}      \* "B", "C"

\* What an unquoted value is made of: x and the escaped \; \: \, \\ \".
UnquotedAtoms == {<<120>>, <<BSLASH, SEMI>>, <<BSLASH, COLON>>,
                  <<BSLASH, COMMA>>, <<BSLASH, BSLASH>>, <<BSLASH, DQUOTE>>}

\* What a quoted value is made of: x, the bare ; : , and the escaped \" \\.
QuotedAtoms == {<<120>>, <<SEMI>>, <<COLON>>, <<COMMA>>,
                <<BSLASH, DQUOTE>>, <<BSLASH, BSLASH>>}

MaxItemAtoms == 1

MaxItems == 3

ItemPool ==
    {[name |-> n, quoted |-> q, atoms |-> a, joined |-> j] :
        n \in GroupNames, q \in BOOLEAN, j \in BOOLEAN,
        a \in SeqsUpTo(UnquotedAtoms \cup QuotedAtoms, MaxItemAtoms)}

\* The lists of values a line is written from: the atoms of a value are
\* those of its kind, and a value is joined by a comma only to a value of
\* the same parameter.
ItemLists ==
    {l \in SeqsUpTo(ItemPool, MaxItems) :
        /\ l # <<>>
        /\ ~l[1].joined
        /\ \A i \in 1..Len(l) :
              /\ \A k \in 1..Len(l[i].atoms) :
                    l[i].atoms[k] \in (IF l[i].quoted THEN QuotedAtoms
                                       ELSE UnquotedAtoms)
              /\ (i > 1 /\ l[i].joined) => l[i].name = l[i - 1].name}

\* The octets of one value on the line, with what joins it to the line.
ItemText(it) ==
    (IF it.joined THEN <<COMMA>> ELSE <<SEMI>> \o it.name \o <<EQ>>)
        \o (IF it.quoted THEN <<DQUOTE>> \o Concat(it.atoms) \o <<DQUOTE>>
            ELSE Concat(it.atoms))

GroupLine(l) ==
    <<65>> \o Concat([i \in 1..Len(l) |-> ItemText(l[i])]) \o <<COLON, 120>>

GroupInit ==
    /\ TextIdle
    /\ FoldIdle
    /\ ParseIdle
    /\ ReadIdle
    /\ MapIdle
    /\ SinkIdle
    /\ CompIdle
    /\ items \in ItemLists
    /\ inputLine = GroupLine(items)
    /\ parsed = [nil |-> TRUE, prop |-> NilProperty, err |-> NoError]
    /\ ppc = "start"

SpecGroup == GroupInit /\ [][PropNext]_vars

\* The value an item stands for: its atoms without the quotes around them,
\* an escaped character standing for the character itself.
ItemValue(it) == [k \in 1..Len(it.atoms) |-> it.atoms[k][Len(it.atoms[k])]]

\* The values written for the parameter k, in the order of the line.
ValuesWritten(l, k) ==
    LET mine == SelectSeq(l, LAMBDA it : it.name = k)
    IN  [i \in 1..Len(mine) |-> ItemValue(mine[i])]

\* C27: in a parameter group NAME=v1,v2,... a value that starts with a
\* double quote goes up to the next unescaped double quote, loses its quotes
\* and may hold ';', ':' and ','; an unquoted value ends just before the
\* first unescaped ';', ':' or ','; the decoded values, those of a repeated
\* parameter name too, are appended to the value list of the parameter in
\* the order of the line.
C27_ParamValuesInOrder ==
    ppc = "parsed" =>
        /\ ~parsed.nil
        /\ parsed.err = NoError
        /\ parsed.prop.IANAToken = <<65>>
        /\ parsed.prop.Value = <<120>>
        /\ DOMAIN parsed.prop.ICalParameters = {items[i].name : i \in 1..Len(items)}
        /\ \A k \in DOMAIN parsed.prop.ICalParameters :
              parsed.prop.ICalParameters[k] = ValuesWritten(items, k)

\* The line A;B=";";C=\,;B=x:x has been parsed: B has the quoted ; and, from
\* its second group, x.
C27_Witness ==
    /\ ppc = "parsed"
    /\ inputLine = <<65, SEMI, 66, EQ, DQUOTE, SEMI, DQUOTE, SEMI, 67, EQ,
                     BSLASH, COMMA, SEMI, 66, EQ, 120, COLON, 120>>
    /\ parsed.prop.ICalParameters[<<66>>] = << <<SEMI>>, <<120>> >>
    /\ parsed.prop.ICalParameters[<<67>>] = << <<COMMA>> >>

(***************************************************************************)
(* Specification of the folding of lines that hold word and tag            *)
(* boundaries: BaseProperty.serialize as in SpecFold, on values made of    *)
(* 'a', space, '<', '>', the two-byte rune U+00E9 and a lone continuation  *)
(* byte (not valid UTF-8).                                                 *)
(***************************************************************************)
SegmentAtoms == {<<97>>, <<SP>>, <<LT>>, <<GT>>, <<195, 169>>, <<169>>}

MaxSegmentAtoms == 4

SegmentsInit ==
    /\ TextIdle
    /\ PropIdle
    /\ ParseIdle
    /\ ReadIdle
    /\ MapIdle
    /\ SinkIdle
    /\ CompIdle
    /\ GroupIdle
    /\ \E atoms \in SeqsUpTo(SegmentAtoms, MaxSegmentAtoms) :
           bp = [IANAToken |-> <<65>>, ICalParameters |-> NoParams,
                 Value |-> Concat(atoms)]
    /\ serialConfig \in [MaxLength : 1..MaxMaxLength, NewLine : {<<LF>>}]
    /\ r = <<>>
    /\ w = <<>>
    /\ nwrites = 0
    /\ spc = "start"
    /\ unfolded = ReadLineResult(<<>>, "EOF", 0)

SpecSegments == SegmentsInit /\ [][FoldNext]_vars

\* The word and tag boundaries of s at an index in 1..n: the index of a
\* space or of a '<', and the index just after a '>'.
WordBoundaries(s, n) ==
    {i \in 1..n : /\ i < Len(s)
                  /\ \/ ByteAt(s, i) \in {SP, LT}
                     \/ ByteAt(s, i - 1) = GT}

RECURSIVE CodePointBoundaries(_, _)
\* The indices of s from i on at which a code point starts or s ends.
CodePointBoundaries(s, i) ==
    IF i >= Len(s) THEN {Len(s)}
    ELSE {i} \cup CodePointBoundaries(s, i + DecodeRune(s, i).size)

Greatest(S) == CHOOSE x \in S : \A y \in S : y <= x

\* Where a segment of at most n octets of s is cut: at the last word or tag
\* boundary within n when there is one, else at the last code-point
\* boundary within n.
CutIndex(s, n) ==
    IF WordBoundaries(s, n) # {}
    THEN Greatest(WordBoundaries(s, n))
    ELSE Greatest({i \in CodePointBoundaries(s, 0) : i <= n})

\* The segment cut off s and what is left of s.
CutAt(s, n, segment, rest) ==
    /\ segment = Slice(s, 0, CutIndex(s, n))
    /\ rest = Slice(s, CutIndex(s, n), Len(s))

\* C28: when a line is folded, each segment is cut at the last word or tag
\* boundary (a space, a '<', or the position just after a '>') at an index
\* greater than 0 within the allowed segment length when there is one, and
\* otherwise at the last code-point boundary that fits in that length.
C28_SegmentsCutAtBoundary ==
    [][/\ (spc = "start" /\ spc' = "fold") =>
              CutAt(PropertyLine(bp), serialConfig.MaxLength,
                    Slice(w', 0, Len(w') - 1), r')
       /\ (spc = "fold" /\ spc' = "fold") =>
              CutAt(r, serialConfig.MaxLength - 1,
                    Slice(w', Len(w) + 1, Len(w') - 1), r')]_vars

(***************************************************************************)
(* Specification of the writing of parameter values: BaseProperty.serialize *)
(* on the property S with one parameter, ALTREP or another name, and one   *)
(* or two values made of x and the characters that are escaped.            *)
(***************************************************************************)
WrittenParamKeys == {ParameterAltrep, <<66>>, <<97, 108, 116, 114, 101, 112>>}  \* "ALTREP", "B", "altrep"

WrittenAlphabet == {120, SEMI, COLON, COMMA, BSLASH, DQUOTE, SQUOTE}

MaxWrittenValueLen == 2

MaxWrittenValues == 2

WrittenInit ==
    /\ TextIdle
    /\ PropIdle
    /\ ParseIdle
    /\ ReadIdle
    /\ SinkIdle
    /\ CompIdle
    /\ GroupIdle
    /\ \E k \in WrittenParamKeys :
       \E vs \in SeqsUpTo(SeqsUpTo(WrittenAlphabet, MaxWrittenValueLen),
                          MaxWrittenValues) \ {<<>>} :
           /\ bp = [IANAToken |-> <<83>>,
                    ICalParameters |-> [x \in {k} |-> vs],
                    Value |-> <<118>>]
           /\ iter = <<k>>
    /\ serialConfig = defaultSerializationOptions
    /\ r = <<>>
    /\ w = <<>>
    /\ nwrites = 0
    /\ spc = "start"
    /\ unfolded = ReadLineResult(<<>>, "EOF", 0)

SpecWritten == WrittenInit /\ [][MapNext]_vars

RECURSIVE BackslashBefore(_, _)
\* v with a backslash put before each of its characters that is in S.
BackslashBefore(v, S) ==
    IF v = <<>> THEN <<>>
    ELSE (IF Head(v) \in S THEN <<BSLASH>> ELSE <<>>) \o <<Head(v)>>
         \o BackslashBefore(Tail(v), S)

\* How the value v of the parameter k is to be written.
WrittenValue(k, v) ==
    IF k = ParameterAltrep
    THEN <<DQUOTE>> \o BackslashBefore(v, {DQUOTE, BSLASH}) \o <<DQUOTE>>
    ELSE BackslashBefore(v, {SEMI, COLON, COMMA, BSLASH, DQUOTE, SQUOTE})

RECURSIVE WrittenValues(_, _)
WrittenValues(k, vs) ==
    IF vs = <<>> THEN <<>>
    ELSE WrittenValue(k, Head(vs))
         \o (IF Len(vs) > 1 THEN <<COMMA>> ELSE <<>>)
         \o WrittenValues(k, Tail(vs))

\* C29: the value of a parameter that requires quoting (ALTREP) is written
\* between double quotes with a backslash before each double quote and
\* backslash; every other parameter value is written without quotes, with a
\* backslash before each ';', ':', ',', backslash, double quote and single
\* quote, and its other characters as they are.
C29_ParamValueWritten ==
    spc = "done" =>
        w = <<83, SEMI>> \o iter[1] \o <<EQ>>
              \o WrittenValues(iter[1], bp.ICalParameters[iter[1]])
              \o <<COLON, 118, LF>>

\* ALTREP with the values " and '; has been written as "\"","';".
C29_Witness ==
    /\ spc = "done"
    /\ iter = <<ParameterAltrep>>
    /\ bp.ICalParameters[ParameterAltrep] = << <<DQUOTE>>, <<SQUOTE, SEMI>> >>
    /\ w = <<83, SEMI>> \o ParameterAltrep
             \o <<EQ, DQUOTE, BSLASH, DQUOTE, DQUOTE, COMMA,
                  DQUOTE, SQUOTE, SEMI, DQUOTE, COLON, 118, LF>>

(***************************************************************************)
(* Specification of Calendar.SerializeTo on calendars with nested          *)
(* components, to a writer that does not fail: no calendar property or    *)
(* two, up to MaxTreeComponents components (VEVENT or X-A) with up to      *)
(* MaxTreeProperties properties and up to MaxTreeChildren children (VALARM *)
(* or X-A).                                                                *)
(***************************************************************************)
PropertyNote == [IANAToken |-> <<78>>, ICalParameters |-> NoParams, Value |-> <<121>>]

TypeXA == <<88, 45, 65>>      \* "X-A"

MaxTreeProperties == 2

MaxTreeChildren == 2

MaxTreeComponents == 2

\* The component that the library builds for the type T.
ComponentOfType(T, ps, children) ==
    [variant |-> VariantFor(T),
     Token |-> IF VariantFor(T) = "GeneralComponent" THEN T ELSE <<>>,
     Properties |-> ps, Components |-> children]

TreeLeaves == {ComponentOfType(T, <<>>, <<>>) : T \in {ComponentVAlarm, TypeXA}}

TreeComponents ==
    {ComponentOfType(T, ps, children) :
        T \in {ComponentVEvent, TypeXA},
        ps \in SeqsUpTo({PropertyShort, PropertyNote}, MaxTreeProperties),
        children \in SeqsUpTo(TreeLeaves, MaxTreeChildren)}

TreeInit ==
    /\ TextIdle
    /\ FoldIdle
    /\ PropIdle
    /\ ParseIdle
    /\ ReadIdle
    /\ MapIdle
    /\ CompIdle
    /\ GroupIdle
    /\ \E cps \in {<<>>, <<PropertyNote, PropertyShort>>} :
       \E cos \in SeqsUpTo(TreeComponents, MaxTreeComponents) :
           scal = [CalendarProperties |-> cps, Components |-> cos]
    /\ sinkConfig = defaultSerializationOptions
    /\ sink = NewSink(0, FALSE)
    /\ serr = NilError
    /\ kpc = "start"

SpecTree == TreeInit /\ [][SinkNext]_vars

\* The octets written, and the lines they make.
Output == Concat([i \in 1..Len(sink.log) |-> sink.log[i].octets])

OutputLines == SplitLines(Output, <<LF>>)

IsBeginLine(l) == HasPrefix(l, TokenBegin \o <<COLON>>)

IsEndLine(l) == HasPrefix(l, TokenEnd_ \o <<COLON>>)

RECURSIVE PropertiesEnd(_, _)
\* The index of the first BEGIN or END line of ls at or after i.
PropertiesEnd(ls, i) ==
    IF i > Len(ls) \/ IsBeginLine(ls[i]) \/ IsEndLine(ls[i]) THEN i
    ELSE PropertiesEnd(ls, i + 1)

NoNode == [ok |-> FALSE, node |-> <<>>, next |-> 0]

\* What closes the block that the BEGIN line at i opens, the children of
\* the block having been read.
CloseNode(ls, i, kids) ==
    IF /\ kids.ok
       /\ kids.next <= Len(ls)
       /\ ls[kids.next] = EndLine(SubSeq(ls[i], 7, Len(ls[i])))
    THEN [ok |-> TRUE,
          node |-> [type |-> SubSeq(ls[i], 7, Len(ls[i])),
                    props |-> SubSeq(ls, i + 1, PropertiesEnd(ls, i + 1) - 1),
                    children |-> kids.nodes],
          next |-> kids.next + 1]
    ELSE NoNode

\* A block and the blocks after it.
NodeThenNodes(n, rest) ==
    IF n.ok /\ rest.ok
    THEN [ok |-> TRUE, nodes |-> <<n.node>> \o rest.nodes, next |-> rest.next]
    ELSE [ok |-> FALSE, nodes |-> <<>>, next |-> 0]

RECURSIVE ReadNode(_, _)
RECURSIVE ReadNodes(_, _)
\* The block that the BEGIN line at i opens: its type, the lines before its
\* first child, its children, up to the END line of the same type.
ReadNode(ls, i) == CloseNode(ls, i, ReadNodes(ls, PropertiesEnd(ls, i + 1)))

\* The blocks that follow one another from line i on.
ReadNodes(ls, i) ==
    IF i <= Len(ls) /\ IsBeginLine(ls[i])
    THEN IF ReadNode(ls, i).ok
         THEN NodeThenNodes(ReadNode(ls, i), ReadNodes(ls, ReadNode(ls, i).next))
         ELSE [ok |-> FALSE, nodes |-> <<>>, next |-> 0]
    ELSE [ok |-> TRUE, nodes |-> <<>>, next |-> i]

\* The type a component of the calendar stands for.
TreeType(co) ==
    CHOOSE T \in {ComponentVEvent, ComponentVAlarm, TypeXA} : StandsFor(co, T)

RECURSIVE NodeOf(_)
\* The block a component is to be written as.
NodeOf(co) ==
    [type |-> TreeType(co),
     props |-> [i \in 1..Len(co.Properties) |-> PropertyLine(co.Properties[i])],
     children |-> [i \in 1..Len(co.Components) |-> NodeOf(co.Components[i])]]

CalendarNode(cal) ==
    [type |-> ComponentVCalendar,
     props |-> [i \in 1..Len(cal.CalendarProperties) |->
                   PropertyLine(cal.CalendarProperties[i])],
     children |-> [i \in 1..Len(cal.Components) |-> NodeOf(cal.Components[i])]]

\* C30: the lines written are BEGIN:VCALENDAR, the calendar properties in
\* stored order, each component in stored order, END:VCALENDAR, a component
\* being BEGIN:<TYPE>, its properties in stored order, its children in
\* stored order, END:<TYPE>: every BEGIN line has its END line of the same
\* type and the blocks are properly nested.
C30_BlocksInStoredOrder ==
    kpc = "returned" =>
        /\ serr.nil
        /\ Output # <<>>
        /\ Output[Len(Output)] = LF
        /\ ReadNode(OutputLines, 1) =
               [ok |-> TRUE, node |-> CalendarNode(scal),
                next |-> Len(OutputLines) + 1]

\* A calendar with the properties N and S and the components X-A (with S, N
\* and the children X-A and VALARM) and VEVENT has been written.
C30_Witness ==
    /\ kpc = "returned"
    /\ scal.CalendarProperties = <<PropertyNote, PropertyShort>>
    /\ scal.Components =
           <<ComponentOfType(TypeXA, <<PropertyShort, PropertyNote>>,
                 <<ComponentOfType(TypeXA, <<>>, <<>>),
                   ComponentOfType(ComponentVAlarm, <<>>, <<>>)>>),
             ComponentOfType(ComponentVEvent, <<>>, <<>>)>>
    /\ Len(OutputLines) = 14

====
